---- MODULE Spec2Model ----
(***************************************************************************)
(* Model of the per-tick simulation core of the stealth-pursuit game:      *)
(* the ticker callback of client/src/main.ts, the keyboard controls, the   *)
(* prey AI, the noise engine, the collision passes and the three detection *)
(* channels.                                                               *)
(*                                                                         *)
(* The program computes in IEEE doubles; the model computes in fixed point *)
(* on integers, dividing with truncation toward zero:                      *)
(*   time                       milliseconds                               *)
(*   position                   1/100 world unit          (0.01 -> 1)      *)
(*   velocity                   1/100 world unit / second                  *)
(*   heading, bearing           milliradians in [0, 6283)                  *)
(*   sine, cosine, unit vectors 1/1000                                     *)
(*   noise index, components    1/10000                   (1.5 -> 15000)   *)
(*   suppression, alpha         1/100                     (0.9 -> 90)      *)
(*   arc width                  1/100 degree                               *)
(*   base distances             meters (40 m = 1 world unit)               *)
(* A null timestamp is 0 (the code tests timestamps with && and ||, which  *)
(* treat null and 0 alike).                                                *)
(***************************************************************************)
EXTENDS Integers, Sequences, FiniteSets, TLC

\* ------------------------------------------------------------ arithmetic

Abs(a) == IF a < 0 THEN -a ELSE a
Max(a, b) == IF a > b THEN a ELSE b
Min(a, b) == IF a < b THEN a ELSE b
Sign(a) == IF a < 0 THEN -1 ELSE IF a > 0 THEN 1 ELSE 0

\* a / b truncated toward zero (b > 0)
TDiv(a, b) == IF a >= 0 THEN a \div b ELSE -((-a) \div b)

\* p * q / c for naturals, without forming p * q
MulDivNat(p, q, c) == (p \div c) * q + ((p % c) * q) \div c

\* a * b / c truncated toward zero (c > 0)
MulDiv(a, b, c) == Sign(a) * Sign(b) * MulDivNat(Abs(a), Abs(b), c)

RECURSIVE IsqrtIter(_, _)
IsqrtIter(n, x) ==
  LET y == (x + n \div x) \div 2
  IN IF y >= x THEN x ELSE IsqrtIter(n, y)

\* floor of the square root
Isqrt(n) == IF n <= 0 THEN 0 ELSE IsqrtIter(n, Min(n, 46341))

\* the length of (p, q), floored
Norm(p, q) == Isqrt(p * p + q * q)

\* the factor by which (a, b) is scaled down to bring it within lim
ScaleOf(a, b, lim) == Max(Abs(a), Abs(b)) \div lim + 1

\* Math.hypot(a, b); large arguments are scaled down before squaring
Hypot(a, b) == Norm(TDiv(a, ScaleOf(a, b, 30000)), TDiv(b, ScaleOf(a, b, 30000))) * ScaleOf(a, b, 30000)

\* Math.hypot(a, b) < lim, exactly (lim <= 30000)
HypotLess(a, b, lim) ==
  /\ Abs(a) < lim
  /\ Abs(b) < lim
  /\ a * a + b * b < lim * lim

\* Math.hypot(a, b) > lim, exactly (lim <= 30000)
HypotGreater(a, b, lim) ==
  \/ Abs(a) > lim
  \/ Abs(b) > lim
  \/ a * a + b * b > lim * lim

\* (p, q) divided by its length len, in 1/1000; (0, 0) for the zero vector
Normalize(p, q, len) ==
  IF len = 0 THEN [x |-> 0, y |-> 0]
  ELSE [x |-> TDiv(p * 1000, len), y |-> TDiv(q * 1000, len)]

NormalizeSmall(p, q) == Normalize(p, q, Norm(p, q))

\* the direction of (a, b) as a unit vector in 1/1000
UnitVec(a, b) == NormalizeSmall(TDiv(a, ScaleOf(a, b, 20000)), TDiv(b, ScaleOf(a, b, 20000)))

PI == 3142
TWOPI == 6283
HALFPI == 1571

\* an angle reduced to [0, 2 pi)
NormAngle(h) == h % TWOPI

\* Math.sin on [0, pi], Bhaskara's rational approximation (error < 0.002)
SinPos(x) ==
  LET p == x * (PI - x)
  IN (16 * p) \div ((5 * PI * PI - 4 * p) \div 1000)

\* Math.sin, in 1/1000
Sin(h) ==
  LET x == NormAngle(h)
  IN IF x <= PI THEN SinPos(x) ELSE -SinPos(Min(x - PI, PI))

\* Math.cos, in 1/1000
Cos(h) == Sin(h + HALFPI)

\* Math.atan on [0, 1] (argument in 1/1000), error < 0.005
AtanUnit(z) == (z * (785 + (273 * (1000 - z)) \div 1000)) \div 1000

\* Math.atan2 in the first quadrant (ax, ay >= 0)
AtanQuadrant(ax, ay) ==
  IF ax = 0 /\ ay = 0 THEN 0
  ELSE IF ax >= ay THEN AtanUnit(MulDivNat(ay, 1000, ax))
  ELSE HALFPI - AtanUnit(MulDivNat(ax, 1000, ay))

\* the first-quadrant angle a placed in the half plane of y >= 0
AtanUpper(x, a) == IF x < 0 THEN PI - a ELSE a

\* the upper half plane angle b placed by the sign of y
AtanFull(y, b) == IF y < 0 THEN NormAngle(TWOPI - b) ELSE b

\* Math.atan2(y, x) reduced to [0, 2 pi); large arguments are scaled down first
Atan2(y, x) ==
  AtanFull(y, AtanUpper(x, AtanQuadrant(Abs(x) \div ScaleOf(x, y, 2000000),
                                        Abs(y) \div ScaleOf(x, y, 2000000))))

\* the absolute difference of two angles, in [0, pi]:
\* |atan2(sin(a - b), cos(a - b))|
AngleDelta(a, b) ==
  LET d == NormAngle(a - b)
  IN IF d > PI THEN TWOPI - d ELSE d

Vec(px, py) == [x |-> px, y |-> py]

RECURSIVE SumSeq(_)
SumSeq(s) == IF s = <<>> THEN 0 ELSE Head(s) + SumSeq(Tail(s))

\* ------------------------------------------------------------ noise engine

\* a rectangle (zone, obstacle, escape zone) contains a point, edges included
isPointInsideZone(point, zone) ==
  /\ point.x >= zone.x
  /\ point.x <= zone.x + zone.width
  /\ point.y >= zone.y
  /\ point.y <= zone.y + zone.height

RECURSIVE totalSuppression(_, _)
totalSuppression(point, zs) ==
  IF zs = <<>> THEN 0
  ELSE (IF isPointInsideZone(point, Head(zs)) THEN Head(zs).noiseSuppression ELSE 0)
       + totalSuppression(point, Tail(zs))

\* mutant: the sum of the coefficients is returned without the clamp
environmentSuppressionAt_unclamped(point, zs) == totalSuppression(point, zs)

environmentSuppressionAt(point, zs) ==
  Max(0, Min(90, totalSuppression(point, zs)))

computeNoiseIndexRaw(ship, zs) ==
  LET envSuppression == environmentSuppressionAt(ship.position, zs)
      base == ship.baseNoise + ship.thrustNoise + ship.weaponsNoise + ship.moduleNoise
      suppressed == TDiv(TDiv(base * (100 - envSuppression), 100) * (100 - ship.suppression), 100)
  IN Max(0, Min(15000, suppressed))

smoothNoise(previous, current, alpha) ==
  LET clampedAlpha == Max(1, Min(100, alpha))
  IN previous + TDiv((current - previous) * clampedAlpha, 100)

\* mutant: the ping spike is added without the cap at 1.5
pingSpike_uncapped(ni) == ni + 6000

\* main.ts 202: Math.min(1.5, player.niSmooth + 0.6)
pingSpike(ni) == Min(15000, ni + 6000)

\* ------------------------------------------------------------ collisions

\* the push-out distance 0.01
EPS == 1

inside(p, r) ==
  /\ p.x >= r.x
  /\ p.x <= r.x + r.width
  /\ p.y >= r.y
  /\ p.y <= r.y + r.height

\* one iteration of the loop of resolveCollisionsWithVelocity
resolveOne(c, r) ==
  IF ~inside(c.nextPos, r) THEN c
  ELSE LET dxLeft == c.nextPos.x - r.x
           dxRight == r.x + r.width - c.nextPos.x
           dyTop == c.nextPos.y - r.y
           dyBottom == r.y + r.height - c.nextPos.y
           penX == Min(dxLeft, dxRight)
           penY == Min(dyTop, dyBottom)
       IN IF penX < penY
          THEN [nextPos |-> Vec(IF dxLeft < dxRight THEN r.x - EPS ELSE r.x + r.width + EPS,
                                c.nextPos.y),
                nextVel |-> Vec(0, c.nextVel.y)]
          ELSE [nextPos |-> Vec(c.nextPos.x,
                                IF dyTop < dyBottom THEN r.y - EPS ELSE r.y + r.height + EPS),
                nextVel |-> Vec(c.nextVel.x, 0)]

RECURSIVE resolveLoop(_, _)
resolveLoop(c, obs) ==
  IF obs = <<>> THEN c ELSE resolveLoop(resolveOne(c, Head(obs)), Tail(obs))

\* the parameter `position` of the code is unused by it
resolveCollisionsWithVelocity(next, velocity, obs) ==
  resolveLoop([nextPos |-> next, nextVel |-> velocity], obs)

\* one iteration of the loop of resolveCollisions (position only)
resolvePosOne(c, r) ==
  IF ~inside(c, r) THEN c
  ELSE LET dx1 == Abs(r.x - c.x)
           dx2 == Abs(r.x + r.width - c.x)
           dy1 == Abs(r.y - c.y)
           dy2 == Abs(r.y + r.height - c.y)
           minX == IF dx1 < dx2 THEN r.x - EPS ELSE r.x + r.width + EPS
           minY == IF dy1 < dy2 THEN r.y - EPS ELSE r.y + r.height + EPS
           penX == Min(dx1, dx2)
           penY == Min(dy1, dy2)
       IN IF penX < penY THEN Vec(minX, c.y) ELSE Vec(c.x, minY)

RECURSIVE resolvePosLoop(_, _)
resolvePosLoop(c, obs) ==
  IF obs = <<>> THEN c ELSE resolvePosLoop(resolvePosOne(c, Head(obs)), Tail(obs))

resolveCollisions(next, obs) == resolvePosLoop(next, obs)

\* mutant: a clamp on either axis stops the ship on both
clampToWorldBounds_stopsShip(next, velocity, worldWidth, worldHeight) ==
  LET cx == IF next.x < 0 THEN 0 ELSE IF next.x > worldWidth THEN worldWidth ELSE next.x
      cy == IF next.y < 0 THEN 0 ELSE IF next.y > worldHeight THEN worldHeight ELSE next.y
  IN [nextPos |-> Vec(cx, cy),
      nextVel |-> IF Vec(cx, cy) = next THEN velocity ELSE Vec(0, 0)]

clampToWorldBoundsWithVelocity(next, velocity, worldWidth, worldHeight) ==
  LET cx == IF next.x < 0 THEN 0 ELSE IF next.x > worldWidth THEN worldWidth ELSE next.x
      vx == IF next.x < 0 \/ next.x > worldWidth THEN 0 ELSE velocity.x
      cy == IF next.y < 0 THEN 0 ELSE IF next.y > worldHeight THEN worldHeight ELSE next.y
      vy == IF next.y < 0 \/ next.y > worldHeight THEN 0 ELSE velocity.y
  IN [nextPos |-> Vec(cx, cy), nextVel |-> Vec(vx, vy)]

\* ------------------------------------------------------------ detection

\* 1 / PX_PER_M: meters per world unit
M_PER_PX == 40
NI_CAL_AMBIENT == 5
NI_CAL_PASSIVE == 8

\* the product of two naturals below 10^6 as <<high, low>>, high * 10^6 + low
BigMul(p, q) ==
  LET ph == p \div 1000
      pl == p % 1000
      qh == q \div 1000
      ql == q % 1000
      rest == (ph * ql + pl * qh) * 1000 + pl * ql
  IN <<ph * qh + rest \div 1000000, rest % 1000000>>

\* the sign of s1 * m1 - s2 * m2 for signs s1, s2 and magnitudes m1, m2 (as BigMul
\* returns them)
SignedCompare(s1, m1, s2, m2) ==
  IF s1 # s2 THEN Sign(s1 - s2)
  ELSE IF s1 = 0 THEN 0
  ELSE s1 * (IF m1[1] # m2[1] THEN Sign(m1[1] - m2[1]) ELSE Sign(m1[2] - m2[2]))

\* the sign of p1 * q1 - p2 * q2, the factors below 10^6 in absolute value
CrossSign(p1, q1, p2, q2) ==
  SignedCompare(Sign(p1) * Sign(q1), BigMul(Abs(p1), Abs(q1)),
                Sign(p2) * Sign(q2), BigMul(Abs(p2), Abs(q2)))

distance(a, b) == Hypot(a.x - b.x, a.y - b.y)

\* mutant: the whole arc width is allowed on either side of the heading
isWithinArc_wholeWidth(source, target, arcDegrees) ==
  LET dx == target.position.x - source.position.x
      dy == target.position.y - source.position.y
  IN AngleDelta(Atan2(dy, dx), source.headingRadians) <= TDiv(arcDegrees * PI, 18000)

isWithinArc(source, target, arcDegrees) ==
  LET dx == target.position.x - source.position.x
      dy == target.position.y - source.position.y
      halfArc == TDiv(arcDegrees * PI, 36000)
  IN AngleDelta(Atan2(dy, dx), source.headingRadians) <= halfArc

isPointInsideRect(p, r) ==
  /\ p.x >= r.x
  /\ p.x <= r.x + r.width
  /\ p.y >= r.y
  /\ p.y <= r.y + r.height

onSegment(a, b, c) ==
  /\ Min(a.x, b.x) <= c.x
  /\ c.x <= Max(a.x, b.x)
  /\ Min(a.y, b.y) <= c.y
  /\ c.y <= Max(a.y, b.y)

\* 0 collinear, 1 clockwise, 2 counterclockwise; on integer coordinates
\* |val| < 1e-9 is val = 0
orientationOf(val) == IF val = 0 THEN 0 ELSE IF val > 0 THEN 1 ELSE 2

orientation(a, b, c) ==
  orientationOf(CrossSign(b.y - a.y, c.x - b.x, b.x - a.x, c.y - b.y))

\* the tests of segmentsIntersect on the four orientations
intersectByOrientation(p1, p2, q1, q2, o1, o2, o3, o4) ==
  \/ (o1 # o2 /\ o3 # o4)
  \/ (o1 = 0 /\ onSegment(p1, p2, q1))
  \/ (o2 = 0 /\ onSegment(p1, p2, q2))
  \/ (o3 = 0 /\ onSegment(q1, q2, p1))
  \/ (o4 = 0 /\ onSegment(q1, q2, p2))

segmentsIntersect(p1, p2, q1, q2) ==
  intersectByOrientation(p1, p2, q1, q2,
                         orientation(p1, p2, q1), orientation(p1, p2, q2),
                         orientation(q1, q2, p1), orientation(q1, q2, p2))

\* mutant: only the two horizontal edges of the rectangle are tested
segmentIntersectsRect_twoEdges(a, b, r) ==
  LET topLeft == Vec(r.x, r.y)
      topRight == Vec(r.x + r.width, r.y)
      bottomRight == Vec(r.x + r.width, r.y + r.height)
      bottomLeft == Vec(r.x, r.y + r.height)
  IN \/ segmentsIntersect(a, b, topLeft, topRight)
     \/ segmentsIntersect(a, b, bottomRight, bottomLeft)

segmentIntersectsRect(a, b, r) ==
  LET topLeft == Vec(r.x, r.y)
      topRight == Vec(r.x + r.width, r.y)
      bottomRight == Vec(r.x + r.width, r.y + r.height)
      bottomLeft == Vec(r.x, r.y + r.height)
  IN \/ isPointInsideRect(a, r)
     \/ isPointInsideRect(b, r)
     \/ segmentsIntersect(a, b, topLeft, topRight)
     \/ segmentsIntersect(a, b, topRight, bottomRight)
     \/ segmentsIntersect(a, b, bottomRight, bottomLeft)
     \/ segmentsIntersect(a, b, bottomLeft, topLeft)

isOccluded(source, target, obs) ==
  \E i \in 1..Len(obs) : segmentIntersectsRect(source, target, obs[i])

classSizeFactor(target) ==
  Max(800, Min(1200, TDiv(target.detectabilityBaseMeters * 1000, 7000)))

\* Math.max(1, distance(...)) in 1/10 world unit
rangeDu(a, b) == Max(10, distance(a, b) \div 10)

\* dBaseM^2 / (1 / PX_PER_M)^2: the squared base distance in world units
baseSq(baseMeters) ==
  LET dBaseM == Max(1, baseMeters)
  IN TDiv(dBaseM * dBaseM, M_PER_PX * M_PER_PX)

\* mutant: the ambient signal ignores the target's noise index (taken as 0.2)
ambientReach_fixedNoise(target, params) ==
  MulDiv(TDiv(2000 * classSizeFactor(target), 1000) * NI_CAL_AMBIENT,
         baseSq(params.ambientBaseMeters), 100)

\* signal >= threshold becomes r^2 <= reach, r in 1/10 world unit:
\* (cal * max(0.01, ni) * sizeFactor) / rM^2 >= 1 / dBaseM^2
ambientReach(target, params) ==
  LET ni == Max(100, target.niSmooth)
      t == TDiv(ni * classSizeFactor(target), 1000)
  IN MulDiv(t * NI_CAL_AMBIENT, baseSq(params.ambientBaseMeters), 100)

\* the passive arc in use: clamp(arc, min, max)
passiveArcDeg(params) ==
  Max(params.passiveArcMinDegrees, Min(params.passiveArcMaxDegrees, params.passiveArcDegrees))

\* mutant: no directivity gain
directivity_flat(params) == 1000

\* DI = sqrt(maxArc / max(1, arcDeg)) in 1/1000
directivity(params) ==
  Isqrt(TDiv(params.passiveArcMaxDegrees * 1000, Max(100, passiveArcDeg(params))) * 1000)

passiveReach(target, params) ==
  LET ni == Max(100, target.niSmooth)
      t == TDiv(ni * classSizeFactor(target), 1000)
      g == MulDiv(t * NI_CAL_PASSIVE, directivity(params), 1000)
  IN MulDiv(g, baseSq(params.passiveBaseMeters), 100)

\* sizeFactor / rM^4 >= 1 / dBaseM^4, as r^2 <= sqrt(sizeFactor) * base^2
activeReach(target, params) ==
  MulDiv(Isqrt(classSizeFactor(target) * 1000), baseSq(params.activeBaseMeters), 10)

ambientSignalOk(player, target, params) ==
  LET r == rangeDu(player.position, target.position)
  IN r * r <= ambientReach(target, params)

passiveSignalOk(player, target, params) ==
  LET r == rangeDu(player.position, target.position)
  IN r * r <= passiveReach(target, params)

\* mutant: the active test is passed from the reach outward
activeSignalOk_outward(player, target, params) ==
  LET r == rangeDu(player.position, target.position)
  IN r * r >= activeReach(target, params)

activeSignalOk(player, target, params) ==
  LET r == rangeDu(player.position, target.position)
  IN r * r <= activeReach(target, params)

\* the contacts pushed for the targets that passed the tests;
\* rnd.jx, rnd.jy: the two rand(-20, 20) draws
ambientContactsOf(hit, rnd) ==
  [i \in 1..Len(hit) |->
     [id |-> hit[i].id,
      approximatePosition |-> Vec(hit[i].position.x + rnd.jx, hit[i].position.y + rnd.jy)]]

computeAmbientContacts(player, others, params, obs, rnd) ==
  LET keep(t) == /\ ~isOccluded(player.position, t.position, obs)
                 /\ ambientSignalOk(player, t, params)
  IN ambientContactsOf(SelectSeq(others, keep), rnd)

\* clamp(baseErr / sqrt(snr), minErr, maxErr) * (0.9 + Math.random() * 0.2), in meters;
\* sqrt(snr) = sqrt(reach) / r, snr = max(1, signal / threshold)
passivePosErrorFrom(r, reach, minErr, maxErr, baseErr, errFactor) ==
  TDiv(Max(minErr, Min(maxErr, IF r * r >= reach THEN baseErr
                               ELSE TDiv(baseErr * r, Max(1, Isqrt(reach))))) * errFactor,
       1000)

passivePosError(r, reach, params, errFactor) ==
  passivePosErrorFrom(r, reach, params.passiveMinErrorMeters, params.passiveMaxErrorMeters,
                      (params.passiveMinErrorMeters + params.passiveMaxErrorMeters) \div 2,
                      errFactor)

\* the return pushed for a target at range r (1/10 world unit) with reach `reach`
passiveReturnOf(player, target, params, errFactor, r, reach) ==
  [id |-> target.id,
   bearingRadians |-> Atan2(target.position.y - player.position.y,
                            target.position.x - player.position.x),
   posErrorMeters |-> passivePosError(r, reach, params, errFactor),
   snr |-> Max(1, reach \div (r * r))]

\* the returns pushed for the targets that passed the tests;
\* rnd.errFactor: 0.9 + Math.random() * 0.2 in 1/1000
passiveReturnsOf(player, hit, params, rnd) ==
  [i \in 1..Len(hit) |->
     passiveReturnOf(player, hit[i], params, rnd.errFactor,
                     rangeDu(player.position, hit[i].position),
                     passiveReach(hit[i], params))]

computePassiveReturns(player, others, params, obs, rnd) ==
  LET keep(t) == /\ isWithinArc(player, t, passiveArcDeg(params))
                 /\ ~isOccluded(player.position, t.position, obs)
                 /\ passiveSignalOk(player, t, params)
  IN passiveReturnsOf(player, SelectSeq(others, keep), params, rnd)

\* the contacts pushed for the targets that passed the tests
activeContactsOf(hit) ==
  [i \in 1..Len(hit) |-> [id |-> hit[i].id, position |-> hit[i].position]]

computeActiveContacts(player, others, params, obs) ==
  LET keep(t) == /\ ~isOccluded(player.position, t.position, obs)
                 /\ activeSignalOk(player, t, params)
  IN activeContactsOf(SelectSeq(others, keep))

createRevealBubble(source, radius, lifetimeMs, nowMs) ==
  [x |-> source.position.x, y |-> source.position.y, r |-> radius,
   createdAt |-> nowMs, ttlMs |-> lifetimeMs]

\* ------------------------------------------------------------ world and ships

WORLD_W == 300000
WORLD_H == 200000

\* generateWorld: the escape zone near the far right, mid height
escapeZone ==
  [x |-> WORLD_W - 18000, y |-> WORLD_H \div 2 - 10000, width |-> 12000, height |-> 20000]

availableShips ==
  [frigate |-> [detectabilityBaseMeters |-> 6000, baseNoise |-> 1800, maxSpeed |-> 24000,
                accel |-> 22000, passiveRangeMeters |-> 12000, activeRangeMeters |-> 24000],
   destroyer |-> [detectabilityBaseMeters |-> 7000, baseNoise |-> 2200, maxSpeed |-> 21000,
                  accel |-> 19000, passiveRangeMeters |-> 13000, activeRangeMeters |-> 26000],
   cruiser |-> [detectabilityBaseMeters |-> 8000, baseNoise |-> 2600, maxSpeed |-> 19000,
                accel |-> 17000, passiveRangeMeters |-> 14000, activeRangeMeters |-> 28000],
   capital |-> [detectabilityBaseMeters |-> 9500, baseNoise |-> 3200, maxSpeed |-> 16000,
                accel |-> 14000, passiveRangeMeters |-> 15000, activeRangeMeters |-> 30000]]

createInitialPlayer ==
  [id |-> "player", classId |-> "frigate",
   position |-> Vec(15000, 15000), velocity |-> Vec(0, 0), headingRadians |-> 0,
   baseNoise |-> 2000, thrustNoise |-> 0, weaponsNoise |-> 0, moduleNoise |-> 500,
   suppression |-> 0, niRaw |-> 0, niSmooth |-> 0,
   lastPingDetectedAt |-> 0, lastDecoyAt |-> 0,
   detectabilityBaseMeters |-> 6000, maxSpeed |-> 22000, accel |-> 18000]

createInitialPrey ==
  [id |-> "prey", classId |-> "destroyer",
   position |-> Vec(70000, 50000), velocity |-> Vec(-5, 0), headingRadians |-> PI,
   baseNoise |-> 1000, thrustNoise |-> 200, weaponsNoise |-> 0, moduleNoise |-> 200,
   suppression |-> 0, niRaw |-> 0, niSmooth |-> 0,
   lastPingDetectedAt |-> 0, lastDecoyAt |-> 0,
   detectabilityBaseMeters |-> 7000, maxSpeed |-> 18000, accel |-> 14000]

initialScan ==
  [ambientRangeMeters |-> 5000, passiveArcDegrees |-> 9000,
   passiveArcMaxDegrees |-> 18000, passiveArcMinDegrees |-> 3000,
   passiveRangeMeters |-> 10000, activeRangeMeters |-> 24000,
   activeRevealRadiusMeters |-> 48000, activeCooldownMs |-> 5000,
   lastActivePingAt |-> 0, darkRunActive |-> FALSE]

initialDetection ==
  [ambientContacts |-> <<>>, passiveReturns |-> <<>>, activeContacts |-> <<>>,
   revealBubbles |-> <<>>, activeContactsExpiresAtMs |-> 0,
   breadcrumbs |-> <<>>, decoys |-> <<>>]

timeLimitMs == 120000

\* ------------------------------------------------------------ controls

\* position += velocity * dt
integrate(pos, v, dtMs) ==
  Vec(pos.x + MulDiv(v.x, dtMs, 1000), pos.y + MulDiv(v.y, dtMs, 1000))

\* velocity -= velocity * drag * dt, drag 1.6 per second
applyDrag(v, dtMs) == Vec(v.x - MulDiv(v.x, dtMs, 625), v.y - MulDiv(v.y, dtMs, 625))

\* the unit vector u (1/1000) scaled to the length speed
scaleTo(u, speed) == Vec(TDiv(u.x * speed, 1000), TDiv(u.y * speed, 1000))

\* rotation A/D
controlsHeading(p, keys, dtMs) ==
  NormAngle(p.headingRadians - (IF "a" \in keys THEN 2 * dtMs ELSE 0)
                             + (IF "d" \in keys THEN 2 * dtMs ELSE 0))

\* velocity += (cos, sin)(heading) * accel * dt, accel = accelBase * thrust
controlsThrust(v, h, accel, dtMs) ==
  Vec(v.x + MulDiv(TDiv(Cos(h) * accel, 1000), dtMs, 1000),
      v.y + MulDiv(TDiv(Sin(h) * accel, 1000), dtMs, 1000))

\* clamp max speed: the speed is measured on the velocity that is clamped
clampSpeed(v, maxSpeed) ==
  IF HypotGreater(v.x, v.y, maxSpeed) THEN scaleTo(UnitVec(v.x, v.y), maxSpeed) ELSE v

\* mutant: the arc is narrowed and widened without the clamps
controlsArc_unclamped(scan, keys, dtMs) ==
  scan.passiveArcDegrees - (IF "q" \in keys THEN 6 * dtMs ELSE 0)
                         + (IF "e" \in keys THEN 6 * dtMs ELSE 0)

\* arc width Q/E
controlsArc(scan, keys, dtMs) ==
  LET a1 == IF "q" \in keys
            THEN Max(scan.passiveArcMinDegrees, scan.passiveArcDegrees - 6 * dtMs)
            ELSE scan.passiveArcDegrees
  IN IF "e" \in keys THEN Min(scan.passiveArcMaxDegrees, a1 + 6 * dtMs) ELSE a1

\* what tick writes to the store for the heading h and the velocity v it computed
controlsResult(p, scan, keys, darkRunHeld, dtMs, h, v) ==
  [player |-> [p EXCEPT !.headingRadians = h,
                        !.velocity = v,
                        !.position = integrate(p.position, v, dtMs),
                        !.thrustNoise = IF "w" \in keys THEN 2500 ELSE 200],
   scan |-> [scan EXCEPT !.passiveArcDegrees = controlsArc(scan, keys, dtMs),
                         !.darkRunActive = darkRunHeld]]

\* attachControls.tick: the player and the scan state it writes to the store
controlsTick(p, scan, keys, darkRunHeld, dtMs) ==
  controlsResult(p, scan, keys, darkRunHeld, dtMs,
                 controlsHeading(p, keys, dtMs),
                 clampSpeed(applyDrag(controlsThrust(p.velocity, controlsHeading(p, keys, dtMs),
                                                     TDiv(p.accel * (IF "w" \in keys THEN 1000
                                                                     ELSE IF "s" \in keys THEN -400
                                                                     ELSE 0), 1000),
                                                     dtMs),
                                      dtMs),
                            p.maxSpeed))

\* ------------------------------------------------------------ prey AI

\* the push at the offset (dx, dy) from an obstacle, dist away, in 1/1000:
\* (dx / dist, dy / dist) * (margin - dist) / margin, margin 30
repulsionAt(dx, dy, dist) ==
  IF dist < 3000 /\ dist > 0
  THEN Vec(TDiv(TDiv(dx * 1000, dist) * TDiv((3000 - dist) * 1000, 3000), 1000),
           TDiv(TDiv(dy * 1000, dist) * TDiv((3000 - dist) * 1000, 3000), 1000))
  ELSE Vec(0, 0)

repulsionOffset(dx, dy) ==
  IF Abs(dx) >= 3000 \/ Abs(dy) >= 3000 THEN Vec(0, 0)
  ELSE repulsionAt(dx, dy, Hypot(dx, dy))

\* the contribution of one obstacle to repulsionFromObstacles
repulsionOne(px, py, r) ==
  repulsionOffset(px - Max(r.x, Min(px, r.x + r.width)),
                  py - Max(r.y, Min(py, r.y + r.height)))

addVec(a, b) == Vec(a.x + b.x, a.y + b.y)

RECURSIVE repulsionFromObstacles(_, _, _)
repulsionFromObstacles(px, py, obs) ==
  IF obs = <<>> THEN Vec(0, 0)
  ELSE addVec(repulsionOne(px, py, Head(obs)), repulsionFromObstacles(px, py, Tail(obs)))

\* v * num / den for a large den (den > 0)
ScaleBy(v, num, den) ==
  LET k == den \div 50000 + 1
  IN MulDiv(TDiv(v, k), num, Max(1, den \div k))

\* the clamp of updatePreyAI: vmag is the speed measured before the unstick
\* override and the drag, the limit is the constant 220
preySpeedClamp(v, vmag, maxSpeed) ==
  IF vmag > 22000
  THEN Vec(ScaleBy(v.x, 22000, vmag), ScaleBy(v.y, 22000, vmag))
  ELSE v

\* performance.now() - prey.lastPingDetectedAt < 4000, on a non-null timestamp
pingedRecently(prey, nowMs) ==
  prey.lastPingDetectedAt # 0 /\ nowMs - prey.lastPingDetectedAt < 4000

\* mutant: the intent does not escalate to hide
preyIntent_noEscalation(prey, zs, nowMs) ==
  IF pingedRecently(prey, nowMs) THEN "evade" ELSE "patrol"

preyIntent(prey, zs, nowMs) ==
  LET envSupp == environmentSuppressionAt(prey.position, zs)
  IN IF envSupp < 30 /\ pingedRecently(prey, nowMs) THEN "hide"
     ELSE IF pingedRecently(prey, nowMs) THEN "evade"
     ELSE "patrol"

\* the phase of the evade intent that cuts thrust: (now / 300) % 2 < 1
evadeBraking(nowMs) == (nowMs \div 300) % 2 = 0

\* the velocity the intent sets; the hide intent drifts to the centre of zones[0]
preyIntentVelocity(prey, zs, nowMs, burstSign, intent) ==
  IF intent = "patrol" THEN Vec(-5000, TDiv(Sin((nowMs * 5) \div 4) * 2000, 1000))
  ELSE IF intent = "evade"
       THEN IF evadeBraking(nowMs)
            THEN Vec(MulDiv(prey.velocity.x, 95, 100), MulDiv(prey.velocity.y, 95, 100))
            ELSE Vec(-22000, burstSign * 11000)
  ELSE scaleTo(UnitVec(zs[1].x + zs[1].width \div 2 - prey.position.x,
                       zs[1].y + zs[1].height \div 2 - prey.position.y),
               13200)

preyIntentSuppression(intent, nowMs) ==
  IF intent = "patrol" THEN 10
  ELSE IF intent = "evade" THEN (IF evadeBraking(nowMs) THEN 40 ELSE 20)
  ELSE 50

\* wall repulsion at the ship (repel) and at the look-ahead probe (probeRepel)
preySteer(v, repel, probeRepel, dtMs) ==
  Vec(v.x + MulDiv(repel.x * 18, dtMs, 1000) + MulDiv(probeRepel.x * 22, dtMs, 1000),
      v.y + MulDiv(repel.y * 18, dtMs, 1000) + MulDiv(probeRepel.y * 22, dtMs, 1000))

\* mutant: the override ignores the window of the previous unstick
preyUnstick_noWindow(v, nowMs, unstickUntil) == HypotLess(v.x, v.y, 500)

\* vmag < 5 && now >= unstickUntil
preyUnstick(v, nowMs, unstickUntil) == HypotLess(v.x, v.y, 500) /\ nowMs >= unstickUntil

\* updatePreyAI's results: the prey it leaves, the decoy it posts in
\* window.__spawnDecoy (spawned) and the unstick deadline in unstickUntilById
preyResult(prey, nowMs, intent, drop, unstick, unstickUntil, pos, v) ==
  [prey |-> [prey EXCEPT !.velocity = v,
                         !.position = pos,
                         !.suppression = preyIntentSuppression(intent, nowMs),
                         !.lastDecoyAt = IF drop THEN nowMs ELSE @,
                         !.headingRadians = Atan2(v.y, v.x)],
   intent |-> intent,
   spawned |-> drop,
   spawnDecoy |-> [x |-> prey.position.x, y |-> prey.position.y, createdAt |-> nowMs],
   unstuck |-> unstick,
   unstickUntil |-> IF unstick THEN nowMs + 400 ELSE unstickUntil]

\* from the velocity v after the unstick override: integrate, drag, clamp with the
\* speed vmag measured before the override
preyMove(prey, dtMs, nowMs, intent, unstick, unstickUntil, vmag, v) ==
  preyResult(prey, nowMs, intent,
             pingedRecently(prey, nowMs) /\ nowMs - prey.lastDecoyAt > 3000,
             unstick, unstickUntil,
             integrate(prey.position, v, dtMs),
             preySpeedClamp(applyDrag(v, dtMs), vmag, prey.maxSpeed))

\* from the steered velocity v: measure the speed, apply the unstick override (a
\* slide at 90 degrees from the heading, at speed * 0.8)
preySteered(prey, dtMs, nowMs, intent, unstickUntil, v) ==
  preyMove(prey, dtMs, nowMs, intent, preyUnstick(v, nowMs, unstickUntil), unstickUntil,
           Hypot(v.x, v.y),
           IF preyUnstick(v, nowMs, unstickUntil)
           THEN Vec(TDiv(Cos(prey.headingRadians + HALFPI) * 176, 10),
                    TDiv(Sin(prey.headingRadians + HALFPI) * 176, 10))
           ELSE v)

updatePreyAI(prey, zs, obs, dtMs, nowMs, burstSign, unstickUntil) ==
  preySteered(prey, dtMs, nowMs, preyIntent(prey, zs, nowMs), unstickUntil,
              preySteer(preyIntentVelocity(prey, zs, nowMs, burstSign,
                                           preyIntent(prey, zs, nowMs)),
                        repulsionFromObstacles(prey.position.x, prey.position.y, obs),
                        repulsionFromObstacles(prey.position.x + Cos(prey.headingRadians) * 6,
                                               prey.position.y + Sin(prey.headingRadians) * 6,
                                               obs),
                        dtMs))

\* ------------------------------------------------------------ bounds and inputs

\* frames of the ticker that are followed
MaxTicks == 3

\* the clock is followed up to MaxNow ms
MaxNow == 170000

\* performance.now() when the ticker is installed
BootTimes == {24489}

\* frame times, in ms: a frame in the same clock reading as the one before (the
\* browser rounds performance.now(), to 100 ms under fingerprinting protection), a
\* regular frame, slow frames, and the frame that follows a pause of the page
\* (about two minutes, two lengths)
Dts == {0, 16, 625, 5900, 128818, 129018}

ShipChoices == {"frigate"}

\* the rectangle a generated zone or wall occupies, in world units
Rect(px, py, w, h) == [x |-> px * 100, y |-> py * 100, width |-> w * 100, height |-> h * 100]

Zone(type, px, py, w, h) ==
  [type |-> type, x |-> px * 100, y |-> py * 100, width |-> w * 100, height |-> h * 100,
   noiseSuppression |-> IF type = "shadow" THEN 50 ELSE IF type = "thermal" THEN 35 ELSE 40]

\* a world generateWorld(3000, 2000) can return: 4 shadow, 3 thermal and 4 clutter
\* zones, each kind without overlap inside the kind, and the walls left outside the
\* spawn corner
World1 ==
  [zones |-> << Zone("shadow", 2200, 1434, 300, 200),
                Zone("shadow", 500, 400, 400, 200),
                Zone("shadow", 1200, 1500, 300, 150),
                Zone("shadow", 1800, 200, 250, 130),
                Zone("thermal", 600, 450, 200, 150),
                Zone("thermal", 2000, 1500, 160, 120),
                Zone("thermal", 1500, 700, 300, 220),
                Zone("clutter", 650, 480, 150, 100),
                Zone("clutter", 2300, 300, 140, 100),
                Zone("clutter", 900, 1700, 260, 200),
                Zone("clutter", 1400, 1100, 200, 150) >>,
   obstacles |-> << Rect(400, 450, 40, 300),
                    Rect(1000, 300, 200, 40),
                    Rect(2500, 1200, 40, 400) >>]

Worlds == {World1}

\* frames followed by the slow-frame specification
LiveMaxTicks == 6

\* slow frames (625 + 1875 + 3125 ms span the 5000 ms cooldown and, with the
\* grace period of the reset, the 3000 ms decoy throttle) and the frame after a pause
LiveDts == {625, 1875, 3125, 129018}

\* what one playing frame reads from outside the store: the keys held, the Shift
\* state, and its Math.random() draws (the evade burst side, the two ambient jitter
\* draws, the passive error factor)
Inputs ==
  { [keys |-> {"d", "s", "q"}, darkRunHeld |-> FALSE, burstSign |-> 1,
     jx |-> -2000, jy |-> 2000, errFactor |-> 900],
    [keys |-> {"w", "e"}, darkRunHeld |-> TRUE, burstSign |-> -1,
     jx |-> 2000, jy |-> -2000, errFactor |-> 1099],
    [keys |-> {"q", "e"}, darkRunHeld |-> FALSE, burstSign |-> 1,
     jx |-> 2000, jy |-> -2000, errFactor |-> 1099] }

LiveInputs ==
  { [keys |-> {"d", "s"}, darkRunHeld |-> FALSE, burstSign |-> 1,
     jx |-> -2000, jy |-> 2000, errFactor |-> 900] }

\* ------------------------------------------------------------ state

VARIABLES
  now,          \* performance.now() at the latest tick (`last` of the ticker)
  gamePhase,    \* "menu" | "playing"
  gameStatus,   \* "playing" | "win" | "lose"
  timeStartMs,
  timeMs,
  player,
  prey,
  extras,
  zones,
  obstacles,
  scan,
  detection,
  pingQueued,   \* window.__pingQueued
  resetAt,      \* window.__resetAt (0: not armed)
  unstickUntil, \* unstickUntilById.get("prey") || 0
  ticks,        \* frames taken
  lastTick,     \* what the latest frame did: its inputs, the branches it took, the
                \* store keys each of its set() calls replaced, in order, and the time of
                \* the latest decoy event (history, read by the properties only)
  arg,          \* the arguments of the function under study (function specifications)
  ret           \* what it returned

vars == <<now, gamePhase, gameStatus, timeStartMs, timeMs, player, prey, extras, zones,
          obstacles, scan, detection, pingQueued, resetAt, unstickUntil, ticks, lastTick,
          arg, ret>>

\* ------------------------------------------------------------ the ticker callback

detectionParams(sc) ==
  [ambientBaseMeters |-> sc.ambientRangeMeters,
   passiveBaseMeters |-> sc.passiveRangeMeters,
   activeBaseMeters |-> sc.activeRangeMeters,
   passiveArcDegrees |-> sc.passiveArcDegrees,
   passiveArcMaxDegrees |-> sc.passiveArcMaxDegrees,
   passiveArcMinDegrees |-> sc.passiveArcMinDegrees,
   passiveMinErrorMeters |-> 150,
   passiveMaxErrorMeters |-> 1200]

\* state.scan.lastActivePingAt && now - state.scan.lastActivePingAt <= state.scan.activeCooldownMs
inCooldown(sc, nowMs) ==
  sc.lastActivePingAt # 0 /\ nowMs - sc.lastActivePingAt <= sc.activeCooldownMs

\* mutant: the cooldown ends one instant early (< for <=)
shouldPing_strict(queued, sc, nowMs) ==
  queued /\ ~(sc.lastActivePingAt # 0 /\ nowMs - sc.lastActivePingAt < sc.activeCooldownMs)

\* mutant: a queued ping fires whatever the cooldown
shouldPing_noCooldown(queued, sc, nowMs) == queued

shouldPing(queued, sc, nowMs) == queued /\ ~inCooldown(sc, nowMs)

\* mutant: no bubble is filtered out
liveBubbles_keepAll(bubbles, nowMs) == bubbles

\* the bubbles still alive at nowMs
liveBubbles(bubbles, nowMs) ==
  LET alive(b) == nowMs - b.createdAt < b.ttlMs
  IN SelectSeq(bubbles, alive)

\* [...].slice(-50)
lastFifty(s) == IF Len(s) <= 50 THEN s ELSE SubSeq(s, Len(s) - 49, Len(s))

preyInEscapeZone(p) ==
  /\ p.position.x >= escapeZone.x
  /\ p.position.x <= escapeZone.x + escapeZone.width
  /\ p.position.y >= escapeZone.y
  /\ p.position.y <= escapeZone.y + escapeZone.height

\* now > timeStartMs + timeLimitMs
timeExpired(nowMs, startMs) == nowMs > startMs + timeLimitMs

\* mutant: only a ping of an earlier frame counts as recent
winCondition_earlierPing(sc, pl, pr, nowMs) ==
  /\ sc.lastActivePingAt # 0
  /\ nowMs - sc.lastActivePingAt < 1500
  /\ nowMs - sc.lastActivePingAt > 0
  /\ HypotLess(pl.position.x - pr.position.x, pl.position.y - pr.position.y, 10000)

\* pingRecently && dist < 100 of the win check
winCondition(sc, pl, pr, nowMs) ==
  /\ sc.lastActivePingAt # 0
  /\ nowMs - sc.lastActivePingAt < 1500
  /\ HypotLess(pl.position.x - pr.position.x, pl.position.y - pr.position.y, 10000)

\* mutant: the lose check is missing
statusAfter_winOnly(status, sc, pl, pr, nowMs, startMs) ==
  IF winCondition(sc, pl, pr, nowMs) THEN "win" ELSE status

\* mutant: the time limit alone loses the match
statusAfter_timeoutLoses(status, sc, pl, pr, nowMs, startMs) ==
  IF winCondition(sc, pl, pr, nowMs) THEN "win"
  ELSE IF timeExpired(nowMs, startMs) THEN "lose" ELSE status

\* mutant: the lose check runs after the win check
statusAfter_loseLast(status, sc, pl, pr, nowMs, startMs) ==
  IF timeExpired(nowMs, startMs) /\ preyInEscapeZone(pr) THEN "lose"
  ELSE IF winCondition(sc, pl, pr, nowMs) THEN "win" ELSE status

\* the status the win/lose block leaves when it runs (status is "playing"):
\* the lose check, then the win check, which overwrites it
statusAfter(status, sc, pl, pr, nowMs, startMs) ==
  LET s1 == IF timeExpired(nowMs, startMs) /\ preyInEscapeZone(pr) THEN "lose" ELSE status
  IN IF winCondition(sc, pl, pr, nowMs) THEN "win" ELSE s1

\* mutant: the grace timer is re-armed by every ended tick before the deadline
resetAtAfter_rearm(armed, nowMs) ==
  IF armed = 0 \/ nowMs < armed THEN nowMs + 2500 ELSE 0

\* window.__resetAt after an ended tick
resetAtAfter(armed, nowMs) ==
  IF armed = 0 THEN nowMs + 2500
  ELSE IF nowMs >= armed THEN 0
  ELSE armed

\* whether an ended tick calls resetGame()
resetsNow(armed, nowMs) == armed # 0 /\ nowMs >= armed

\* mutant: a menu frame discards the queued ping request
MenuTick_dropsPing(dtMs) ==
  /\ gamePhase = "menu"
  /\ now' = now + dtMs
  /\ ticks' = ticks + 1
  /\ pingQueued' = FALSE
  /\ lastTick' = [lastTick EXCEPT !.kind = "menu", !.dtMs = dtMs, !.sets = <<>>]
  /\ UNCHANGED <<gamePhase, gameStatus, timeStartMs, timeMs, player, prey, extras, zones,
                 obstacles, scan, detection, resetAt, unstickUntil, arg, ret>>

\* the menu frame: only `last` moves
MenuTick(dtMs) ==
  /\ gamePhase = "menu"
  /\ now' = now + dtMs
  /\ ticks' = ticks + 1
  /\ lastTick' = [lastTick EXCEPT !.kind = "menu", !.dtMs = dtMs, !.sets = <<>>]
  /\ UNCHANGED <<gamePhase, gameStatus, timeStartMs, timeMs, player, prey, extras, zones,
                 obstacles, scan, detection, pingQueued, resetAt, unstickUntil, arg, ret>>

withNoise(ship, raw, alpha) ==
  [ship EXCEPT !.niRaw = raw, !.niSmooth = smoothNoise(ship.niSmooth, raw, alpha)]

\* niRaw = computeNoiseIndexRaw(ship, zones); niSmooth = smoothNoise(niSmooth, niRaw, alpha)
noiseStep(ship, zs, alpha) == withNoise(ship, computeNoiseIndexRaw(ship, zs), alpha)

moved(ship, c) == [ship EXCEPT !.position = c.nextPos, !.velocity = c.nextVel]

clampToWorld(c) == clampToWorldBoundsWithVelocity(c.nextPos, c.nextVel, WORLD_W, WORLD_H)

\* the orchestrator's own integration of the prey, its collision and world clamp
preyCollide(q, obs, dtMs) ==
  moved(q, clampToWorld(resolveCollisionsWithVelocity(integrate(q.position, q.velocity, dtMs),
                                                      q.velocity, obs)))

\* player collision (position only), then the world clamp
playerCollide(p, obs) ==
  moved(p, clampToWorldBoundsWithVelocity(resolveCollisions(p.position, obs), p.velocity,
                                          WORLD_W, WORLD_H))

\* mutant: the active contacts are kept after their window
detectionAfter_noDecay(nowMs, inp, ai, pl, others, params, fire, expiresAt) ==
  [ambientContacts |-> computeAmbientContacts(pl, others, params, obstacles, inp),
   passiveReturns |-> computePassiveReturns(pl, others, params, obstacles, inp),
   activeContacts |-> IF fire THEN computeActiveContacts(pl, others, params, obstacles)
                      ELSE detection.activeContacts,
   revealBubbles |-> IF fire
                     THEN Append(liveBubbles(detection.revealBubbles, nowMs),
                                 createRevealBubble(pl,
                                                    (scan.activeRevealRadiusMeters \div M_PER_PX) * 100,
                                                    1500, nowMs))
                     ELSE liveBubbles(detection.revealBubbles, nowMs),
   activeContactsExpiresAtMs |-> expiresAt,
   breadcrumbs |-> IF ai.spawned
                   THEN lastFifty(Append(detection.breadcrumbs,
                                         [x |-> ai.spawnDecoy.x, y |-> ai.spawnDecoy.y,
                                          createdAt |-> ai.spawnDecoy.createdAt,
                                          ttlMs |-> 7000, isDecoy |-> TRUE]))
                   ELSE detection.breadcrumbs,
   decoys |-> IF ai.spawned
              THEN Append(detection.decoys,
                          [x |-> ai.spawnDecoy.x, y |-> ai.spawnDecoy.y,
                           createdAt |-> ai.spawnDecoy.createdAt, ttlMs |-> 7000])
              ELSE detection.decoys]

\* the detection state the frame leaves: the three channels computed on the player pl
\* and the ships `others` with the scan state of before controls.tick, the bubbles,
\* and the decoy of the prey AI
detectionAfter(nowMs, inp, ai, pl, others, params, fire, expiresAt) ==
  [ambientContacts |-> computeAmbientContacts(pl, others, params, obstacles, inp),
   passiveReturns |-> computePassiveReturns(pl, others, params, obstacles, inp),
   activeContacts |-> IF expiresAt # 0 /\ nowMs > expiresAt THEN <<>>
                      ELSE IF fire THEN computeActiveContacts(pl, others, params, obstacles)
                      ELSE detection.activeContacts,
   revealBubbles |-> IF fire
                     THEN Append(liveBubbles(detection.revealBubbles, nowMs),
                                 createRevealBubble(pl,
                                                    (scan.activeRevealRadiusMeters \div M_PER_PX) * 100,
                                                    1500, nowMs))
                     ELSE liveBubbles(detection.revealBubbles, nowMs),
   activeContactsExpiresAtMs |-> expiresAt,
   breadcrumbs |-> IF ai.spawned
                   THEN lastFifty(Append(detection.breadcrumbs,
                                         [x |-> ai.spawnDecoy.x, y |-> ai.spawnDecoy.y,
                                          createdAt |-> ai.spawnDecoy.createdAt,
                                          ttlMs |-> 7000, isDecoy |-> TRUE]))
                   ELSE detection.breadcrumbs,
   decoys |-> IF ai.spawned
              THEN Append(detection.decoys,
                          [x |-> ai.spawnDecoy.x, y |-> ai.spawnDecoy.y,
                           createdAt |-> ai.spawnDecoy.createdAt, ttlMs |-> 7000])
              ELSE detection.decoys]

\* mutant: the auto reset also puts the scan state back to its initial value
frameEnd_resetsScan(nowMs, dtMs, inp, ai, fire, scan1, pl, pr, det) ==
  LET ended == gameStatus # "playing"
      reset == gameStatus # "playing" /\ resetsNow(resetAt, nowMs)
  IN [now |-> nowMs,
      pingQueued |-> IF fire THEN FALSE ELSE pingQueued,
      unstickUntil |-> ai.unstickUntil,
      scan |-> IF reset THEN initialScan ELSE scan1,
      resetAt |-> IF ended THEN resetAtAfter(resetAt, nowMs) ELSE resetAt,
      player |-> IF reset THEN createInitialPlayer ELSE pl,
      prey |-> IF reset THEN createInitialPrey ELSE pr,
      detection |-> IF reset THEN initialDetection ELSE det,
      gameStatus |-> IF reset THEN "playing"
                     ELSE IF ended THEN gameStatus
                     ELSE statusAfter(gameStatus, scan1, pl, pr, nowMs, timeStartMs),
      timeStartMs |-> IF reset THEN nowMs ELSE timeStartMs,
      lastTick |-> [kind |-> "play", dtMs |-> dtMs, queued |-> pingQueued, fired |-> fire,
                    statusBefore |-> gameStatus, reset |-> reset,
                    intent |-> ai.intent, spawned |-> ai.spawned, unstuck |-> ai.unstuck,
                    keys |-> inp.keys,
                    decoyAt |-> IF ai.spawned THEN nowMs ELSE lastTick.decoyAt,
                    sets |-> <<{"player", "scan"}, {"player", "prey", "extras", "timeMs"}>>
                             \o (IF fire THEN <<{"detection", "prey", "scan"}>> ELSE <<>>)
                             \o (IF ai.spawned THEN <<{"detection"}>> ELSE <<>>)
                             \o <<{"detection"}>>
                             \o (IF ~ended /\ timeExpired(nowMs, timeStartMs) /\ preyInEscapeZone(pr)
                                 THEN <<{"gameStatus"}>> ELSE <<>>)
                             \o (IF ~ended /\ winCondition(scan1, pl, pr, nowMs)
                                 THEN <<{"gameStatus"}>> ELSE <<>>)
                             \o (IF reset
                                 THEN <<{"player", "prey", "extras", "detection", "gameStatus",
                                         "timeStartMs"}>>
                                 ELSE <<>>)]]

\* the win/lose block or the auto reset, on what the frame computed
frameEnd(nowMs, dtMs, inp, ai, fire, scan1, pl, pr, det) ==
  LET ended == gameStatus # "playing"
      reset == gameStatus # "playing" /\ resetsNow(resetAt, nowMs)
  IN [now |-> nowMs,
      pingQueued |-> IF fire THEN FALSE ELSE pingQueued,
      unstickUntil |-> ai.unstickUntil,
      scan |-> scan1,
      resetAt |-> IF ended THEN resetAtAfter(resetAt, nowMs) ELSE resetAt,
      player |-> IF reset THEN createInitialPlayer ELSE pl,
      prey |-> IF reset THEN createInitialPrey ELSE pr,
      detection |-> IF reset THEN initialDetection ELSE det,
      gameStatus |-> IF reset THEN "playing"
                     ELSE IF ended THEN gameStatus
                     ELSE statusAfter(gameStatus, scan1, pl, pr, nowMs, timeStartMs),
      timeStartMs |-> IF reset THEN nowMs ELSE timeStartMs,
      lastTick |-> [kind |-> "play", dtMs |-> dtMs, queued |-> pingQueued, fired |-> fire,
                    statusBefore |-> gameStatus, reset |-> reset,
                    intent |-> ai.intent, spawned |-> ai.spawned, unstuck |-> ai.unstuck,
                    keys |-> inp.keys,
                    decoyAt |-> IF ai.spawned THEN nowMs ELSE lastTick.decoyAt,
                    sets |-> <<{"player", "scan"}, {"player", "prey", "extras", "timeMs"}>>
                             \o (IF fire THEN <<{"detection", "prey", "scan"}>> ELSE <<>>)
                             \o (IF ai.spawned THEN <<{"detection"}>> ELSE <<>>)
                             \o <<{"detection"}>>
                             \o (IF ~ended /\ timeExpired(nowMs, timeStartMs) /\ preyInEscapeZone(pr)
                                 THEN <<{"gameStatus"}>> ELSE <<>>)
                             \o (IF ~ended /\ winCondition(scan1, pl, pr, nowMs)
                                 THEN <<{"gameStatus"}>> ELSE <<>>)
                             \o (IF reset
                                 THEN <<{"player", "prey", "extras", "detection", "gameStatus",
                                         "timeStartMs"}>>
                                 ELSE <<>>)]]

\* detection and the active ping, on the ships pl and pr after motion and collision
framePing(nowMs, dtMs, inp, ctl, ai, pl, pr, fire) ==
  frameEnd(nowMs, dtMs, inp, ai, fire,
           IF fire THEN [scan EXCEPT !.lastActivePingAt = nowMs] ELSE ctl.scan,
           IF fire THEN [pl EXCEPT !.niSmooth = pingSpike(pl.niSmooth)] ELSE pl,
           IF fire THEN [pr EXCEPT !.lastPingDetectedAt = nowMs] ELSE pr,
           detectionAfter(nowMs, inp, ai, pl, <<pr>> \o extras, detectionParams(scan), fire,
                          IF fire THEN nowMs + 1200 ELSE detection.activeContactsExpiresAtMs))

\* noise of the player (dark run suppression read from the scan state of before
\* controls.tick), collisions and world clamp, on what controls.tick (ctl) and
\* updatePreyAI (ai) returned
frameMove(nowMs, dtMs, inp, ctl, ai) ==
  framePing(nowMs, dtMs, inp, ctl, ai,
            playerCollide(noiseStep([ctl.player EXCEPT !.suppression =
                                       IF scan.darkRunActive THEN 45 ELSE 0],
                                    zones, 15),
                          obstacles),
            preyCollide(ai.prey, obstacles, dtMs),
            shouldPing(pingQueued, scan, nowMs))

\* what one playing frame computes from the store; inp: the keys held, the Shift
\* state and the random draws
frame(dtMs, inp) ==
  frameMove(now + dtMs, dtMs, inp,
            controlsTick(player, scan, inp.keys, inp.darkRunHeld, dtMs),
            updatePreyAI(noiseStep(prey, zones, 12), zones, obstacles, dtMs, now + dtMs,
                         inp.burstSign, unstickUntil))

\* one playing frame of the ticker
PlayTick(dtMs, inp) ==
  /\ gamePhase = "playing"
  /\ \E r \in {frame(dtMs, inp)} :
       /\ now' = r.now
       /\ timeMs' = r.now
       /\ ticks' = ticks + 1
       /\ pingQueued' = r.pingQueued
       /\ unstickUntil' = r.unstickUntil
       /\ scan' = r.scan
       /\ extras' = <<>>
       /\ resetAt' = r.resetAt
       /\ player' = r.player
       /\ prey' = r.prey
       /\ detection' = r.detection
       /\ gameStatus' = r.gameStatus
       /\ timeStartMs' = r.timeStartMs
       /\ lastTick' = r.lastTick
  /\ UNCHANGED <<gamePhase, zones, obstacles, arg, ret>>

\* the ticker callback, for the frame times dts, the inputs inps and up to maxTicks frames
Frame(dts, inps, maxTicks) ==
  \E dtMs \in dts :
    /\ ticks < maxTicks
    /\ now + dtMs <= MaxNow
    /\ \/ MenuTick(dtMs)
       \/ \E inp \in inps : PlayTick(dtMs, inp)

Tick == Frame(Dts, Inputs, MaxTicks)

\* mutant: the selection leaves the start timestamp of the boot
SelectShip_keepsClock ==
  \E c \in ShipChoices :
    LET ship == availableShips[c]
    IN /\ gamePhase = "menu"
       /\ player' = [player EXCEPT !.classId = c,
                                   !.baseNoise = ship.baseNoise,
                                   !.detectabilityBaseMeters = ship.detectabilityBaseMeters,
                                   !.maxSpeed = ship.maxSpeed,
                                   !.accel = ship.accel]
       /\ scan' = [scan EXCEPT !.passiveRangeMeters = ship.passiveRangeMeters,
                               !.activeRangeMeters = ship.activeRangeMeters]
       /\ gamePhase' = "playing"
       /\ timeStartMs' = timeStartMs
       /\ lastTick' = [lastTick EXCEPT !.kind = "select",
                                        !.sets = <<{"player", "scan", "gamePhase", "timeStartMs"}>>]
       /\ UNCHANGED <<now, gameStatus, timeMs, prey, extras, zones, obstacles, detection,
                      pingQueued, resetAt, unstickUntil, ticks, arg, ret>>

\* the ship selection button of the menu
SelectShip ==
  \E c \in ShipChoices :
    LET ship == availableShips[c]
    IN /\ gamePhase = "menu"
       /\ player' = [player EXCEPT !.classId = c,
                                   !.baseNoise = ship.baseNoise,
                                   !.detectabilityBaseMeters = ship.detectabilityBaseMeters,
                                   !.maxSpeed = ship.maxSpeed,
                                   !.accel = ship.accel]
       /\ scan' = [scan EXCEPT !.passiveRangeMeters = ship.passiveRangeMeters,
                               !.activeRangeMeters = ship.activeRangeMeters]
       /\ gamePhase' = "playing"
       /\ timeStartMs' = now
       /\ lastTick' = [lastTick EXCEPT !.kind = "select",
                                        !.sets = <<{"player", "scan", "gamePhase", "timeStartMs"}>>]
       /\ UNCHANGED <<now, gameStatus, timeMs, prey, extras, zones, obstacles, detection,
                      pingQueued, resetAt, unstickUntil, ticks, arg, ret>>

\* mutant: Space restarts an ended match at once
KeydownSpace_restart ==
  /\ ~pingQueued
  /\ pingQueued' = TRUE
  /\ gameStatus' = "playing"
  /\ UNCHANGED <<now, gamePhase, timeStartMs, timeMs, player, prey, extras, zones,
                 obstacles, scan, detection, resetAt, unstickUntil, ticks, lastTick, arg, ret>>

\* the Space keydown listener
KeydownSpace ==
  /\ ~pingQueued
  /\ pingQueued' = TRUE
  /\ UNCHANGED <<now, gamePhase, gameStatus, timeStartMs, timeMs, player, prey, extras, zones,
                 obstacles, scan, detection, resetAt, unstickUntil, ticks, lastTick, arg, ret>>

noTick ==
  [kind |-> "boot", dtMs |-> 0, queued |-> FALSE, fired |-> FALSE, statusBefore |-> "playing",
   reset |-> FALSE, intent |-> "patrol", spawned |-> FALSE, unstuck |-> FALSE, keys |-> {},
   decoyAt |-> 0, sets |-> <<>>]

\* the store and the window globals once main.ts has run
Boot ==
  /\ now \in BootTimes
  /\ gamePhase = "menu"
  /\ gameStatus = "playing"
  /\ timeStartMs = now
  /\ timeMs = now
  /\ player = createInitialPlayer
  /\ prey = createInitialPrey
  /\ extras = <<>>
  /\ \E w \in Worlds : zones = w.zones /\ obstacles = w.obstacles
  /\ scan = initialScan
  /\ detection = initialDetection
  /\ pingQueued = FALSE
  /\ resetAt = 0
  /\ unstickUntil = 0
  /\ ticks = 0
  /\ lastTick = noTick

Init ==
  /\ Boot
  /\ arg = <<>>
  /\ ret = [done |-> FALSE]

Next == Tick \/ SelectShip \/ KeydownSpace

Spec == Init /\ [][Next]_vars

\* the same program on a machine that delivers slow frames only, followed for more
\* frames; the ticker runs as long as the page is shown
LiveTick == Frame(LiveDts, LiveInputs, LiveMaxTicks)

LiveNext == LiveTick \/ SelectShip \/ KeydownSpace

\* the browser delivers the next animation frame: the clock part of LiveTick
FrameArrives ==
  \E dtMs \in LiveDts :
    /\ ticks < LiveMaxTicks
    /\ now + dtMs <= MaxNow
    /\ now' = now + dtMs
    /\ ticks' = ticks + 1

\* within LiveNext the steps that advance the clock are the steps of LiveTick, which
\* is enabled whenever a frame can arrive: the fairness condition is WF_vars(LiveTick)
LiveSpec == Init /\ [][LiveNext]_vars /\ WF_<<now, ticks>>(FrameArrives)

\* the same program on a machine that alternates short and slow frames, for the
\* 400 ms window of the prey's unstick override: frames of 125 ms fall inside the
\* window a slow frame opened
UnstickMaxTicks == 6

UnstickDts == {125, 625, 1875}

UnstickSpec ==
  Init /\ [][Frame(UnstickDts, LiveInputs, UnstickMaxTicks) \/ SelectShip \/ KeydownSpace]_vars

\* ------------------------------------------------------------ function specifications

\* the store is idle; arg holds the arguments, ret the value returned
Arguments(S) ==
  /\ Boot
  /\ arg \in S
  /\ ret = [done |-> FALSE]

Returns(value) ==
  /\ ~ret.done
  /\ ret' = value
  /\ UNCHANGED <<now, gamePhase, gameStatus, timeStartMs, timeMs, player, prey, extras, zones,
                 obstacles, scan, detection, pingQueued, resetAt, unstickUntil, ticks, lastTick,
                 arg>>

\* a zone with any coefficient, in 1/100
CoefZone(px, py, w, h, coef) ==
  [type |-> "clutter", x |-> px * 100, y |-> py * 100, width |-> w * 100, height |-> h * 100,
   noiseSuppression |-> coef]

SuppressionZoneLists ==
  { <<>>,
    << CoefZone(0, 0, 200, 200, 50) >>,
    << CoefZone(0, 0, 200, 200, 50), CoefZone(100, 100, 200, 200, 35) >>,
    << CoefZone(0, 0, 200, 200, 50), CoefZone(100, 100, 200, 200, 35),
       CoefZone(50, 50, 150, 150, 40) >>,
    << CoefZone(0, 0, 200, 200, 95) >>,
    << CoefZone(0, 0, 200, 200, -30), CoefZone(100, 100, 200, 200, 20) >>,
    << CoefZone(0, 0, 200, 200, 50), CoefZone(0, 0, 200, 200, 50),
       CoefZone(100, 100, 200, 200, -80) >>,
    << CoefZone(100, 100, 200, 200, 35), CoefZone(0, 0, 200, 200, 50) >>,
    << CoefZone(50, 50, 150, 150, 40), CoefZone(100, 100, 200, 200, 35),
       CoefZone(0, 0, 200, 200, 50) >> }

SuppressionPoints == {Vec(px * 100, py * 100) : px \in {-1, 0, 75, 150, 200, 250}, py \in {75, 150, 300}}

SuppressionInit == Arguments([point : SuppressionPoints, zones : SuppressionZoneLists])

EvalSuppression ==
  Returns([done |-> TRUE, value |-> environmentSuppressionAt(arg.point, arg.zones)])

\* updatePreyAI up to the velocity of the intent, on a prey at the point that a ping
\* hit at this instant (the zone list of the store is never empty: generateWorld
\* always places its first shadow zone): the suppression it reads, the intent,
\* and the velocity the intent sets
SteerPingedPrey ==
  LET pinged == [createInitialPrey EXCEPT !.position = arg.point, !.lastPingDetectedAt = now]
  IN /\ arg.zones # <<>>
     /\ Returns([done |-> TRUE,
                 value |-> environmentSuppressionAt(arg.point, arg.zones),
                 intent |-> preyIntent(pinged, arg.zones, now),
                 velocity |-> preyIntentVelocity(pinged, arg.zones, now, 1,
                                                 preyIntent(pinged, arg.zones, now))])

SuppressionSpec == SuppressionInit /\ [][EvalSuppression \/ SteerPingedPrey]_vars

\* two walls generateWorld can place side by side (rectsOverlap is false for them:
\* the first ends at x = 140, the second starts at x = 140.01), and a third far away
WallA == [x |-> 10000, y |-> 10000, width |-> 4000, height |-> 30000]
WallB == [x |-> 14001, y |-> 10000, width |-> 4000, height |-> 30000]
WallC == [x |-> 16000, y |-> 10000, width |-> 4000, height |-> 30000]

CollisionObstacleLists == { <<>>, <<WallA>>, <<WallA, WallC>>, <<WallA, WallB>>, <<WallB, WallA>> }

CollisionPoints ==
  {Vec(px, py) : px \in {9000, 10000, 10020, 10050, 13950, 14000, 14001, 14050, 17000},
                 py \in {9990, 10020, 25000, 39990}}

CollisionInit ==
  Arguments([next : CollisionPoints, velocity : {Vec(300, -200)},
             obstacles : CollisionObstacleLists])

ResolveWithVelocity ==
  LET c == resolveCollisionsWithVelocity(arg.next, arg.velocity, arg.obstacles)
  IN Returns([done |-> TRUE, fn |-> "resolveCollisionsWithVelocity",
              pos |-> c.nextPos, vel |-> c.nextVel])

ResolvePosition ==
  Returns([done |-> TRUE, fn |-> "resolveCollisions",
           pos |-> resolveCollisions(arg.next, arg.obstacles), vel |-> arg.velocity])

CollisionNext == ResolveWithVelocity \/ ResolvePosition

CollisionSpec == CollisionInit /\ [][CollisionNext]_vars

\* an observer at (1000, 1000), a target around it, and one wall or none: a wall
\* across the line of sight, one beside it, one whose edge lies along it; the
\* target at (1200, 1200) is seen through the corner (1100, 1100) of the first
OcclusionObstacleLists ==
  { <<>>,
    << Rect(1100, 900, 40, 200) >>,
    << Rect(1000, 1020, 200, 40) >>,
    << Rect(1100, 1000, 40, 100) >> }

OcclusionTargets ==
  {Vec(px * 100, py * 100) : px \in {1080, 1120, 1160, 1200}, py \in {950, 1000, 1010, 1050, 1200}}

OcclusionInit ==
  Arguments([target : OcclusionTargets, niSmooth : {500, 15000}, headingRadians : {0, PI},
             obstacles : OcclusionObstacleLists])

observerOf(a) ==
  [createInitialPlayer EXCEPT !.position = Vec(100000, 100000),
                              !.headingRadians = a.headingRadians]

targetOf(a) == [createInitialPrey EXCEPT !.position = a.target, !.niSmooth = a.niSmooth]

noJitter == [jx |-> 0, jy |-> 0, errFactor |-> 1000]

\* the three channels as the ticker calls them, on one target
Detect ==
  LET params == detectionParams(initialScan)
  IN Returns([done |-> TRUE,
              ambient |-> computeAmbientContacts(observerOf(arg), <<targetOf(arg)>>, params,
                                                 arg.obstacles, noJitter),
              passive |-> computePassiveReturns(observerOf(arg), <<targetOf(arg)>>, params,
                                                arg.obstacles, noJitter),
              active |-> computeActiveContacts(observerOf(arg), <<targetOf(arg)>>, params,
                                               arg.obstacles)])

OcclusionSpec == OcclusionInit /\ [][Detect]_vars

\* an observer at (1000, 1000) in open water and one target straight east of it
\* (bearing 0), at a distance in 1/100 world unit: on the observer, inside the
\* 1 unit floor, at and just past each base distance (ambient 125, passive 250,
\* active 600 units), and at the reach of a quiet small target (55.9 units) and
\* of a 45 degree arc (353.5 units)
SignalDistances ==
  {0, 50, 5590, 5600, 12500, 12510, 25000, 25010, 29730, 35350, 60000, 60010}

SignalInit ==
  Arguments([target : {Vec(100000 + d, 100000) : d \in SignalDistances},
             niSmooth : {0, 500, 1250, 2000, 15000},
             detectabilityBaseMeters : {5600, 7000, 9500},
             headingRadians : {0, 392, 393, 786, PI, 5890, 5891},
             passiveArcDegrees : {2000, 3000, 4500, 9000, 18000, 20000},
             errFactor : {900, 1099},
             obstacles : {<<>>}])

\* the target with the detectability stat of its class
sizedTargetOf(a) == [targetOf(a) EXCEPT !.detectabilityBaseMeters = a.detectabilityBaseMeters]

\* the detection params the ticker builds from the scan state
paramsOf(a) == detectionParams([initialScan EXCEPT !.passiveArcDegrees = a.passiveArcDegrees])

\* the three channels on the arguments a
sensed(a) ==
  [done |-> TRUE,
   ambient |-> computeAmbientContacts(observerOf(a), <<sizedTargetOf(a)>>, paramsOf(a),
                                      a.obstacles, noJitter),
   passive |-> computePassiveReturns(observerOf(a), <<sizedTargetOf(a)>>, paramsOf(a),
                                     a.obstacles, [noJitter EXCEPT !.errFactor = a.errFactor]),
   active |-> computeActiveContacts(observerOf(a), <<sizedTargetOf(a)>>, paramsOf(a),
                                    a.obstacles)]

Sense == Returns(sensed(arg))

SignalSpec == SignalInit /\ [][Sense]_vars

\* ------------------------------------------------------------ properties of the functions

\* the coefficient a zone adds at a point, 0 when the point is outside the zone
CoefAt(point, zone) ==
  IF /\ point.x \in zone.x..(zone.x + zone.width)
     /\ point.y \in zone.y..(zone.y + zone.height)
  THEN zone.noiseSuppression
  ELSE 0

StackedAt(point, zs) == SumSeq([i \in 1..Len(zs) |-> CoefAt(point, zs[i])])

\* C3: for every point and every list of zones environmentSuppressionAt returns the
\* sum of the coefficients of the zones that contain the point, clamped to
\* [0, 0.9]: never below 0, never above 0.9
C3_SuppressionIsClampedSum ==
  ret.done =>
    /\ ret.value \in 0..90
    /\ LET sum == StackedAt(arg.point, arg.zones)
       IN ret.value = IF sum < 0 THEN 0 ELSE IF sum > 90 THEN 90 ELSE sum

\* zones stacked above 0.9 at the point, and 0.9 returned
C3_Witness ==
  /\ ret.done
  /\ StackedAt(arg.point, arg.zones) > 90
  /\ ret.value = 90

InsideSomeObstacle(p, obs) ==
  \E i \in 1..Len(obs) :
    /\ p.x \in obs[i].x..(obs[i].x + obs[i].width)
    /\ p.y \in obs[i].y..(obs[i].y + obs[i].height)

\* C9: for every next position and every list of obstacles the position returned by
\* the collision resolution lies inside no obstacle, and resolving the returned
\* position again returns it unchanged
C9_ResolutionLeavesNoOverlap ==
  ret.done =>
    /\ ~InsideSomeObstacle(ret.pos, arg.obstacles)
    /\ resolveCollisions(ret.pos, arg.obstacles) = ret.pos
    /\ resolveCollisionsWithVelocity(ret.pos, ret.vel, arg.obstacles).nextPos = ret.pos

\* the closed segment from a to b and the closed rectangle r have a point in
\* common: no axis of the rectangle and no line along the segment separates them
SegmentMeetsRect(a, b, r) ==
  LET side(cx, cy) == CrossSign(b.x - a.x, cy - a.y, b.y - a.y, cx - a.x)
      corners == { side(r.x, r.y), side(r.x + r.width, r.y),
                   side(r.x, r.y + r.height), side(r.x + r.width, r.y + r.height) }
  IN /\ Max(a.x, b.x) >= r.x
     /\ Min(a.x, b.x) <= r.x + r.width
     /\ Max(a.y, b.y) >= r.y
     /\ Min(a.y, b.y) <= r.y + r.height
     /\ corners # {1}
     /\ corners # {-1}

Blocked(a) ==
  \E i \in 1..Len(a.obstacles) :
    SegmentMeetsRect(observerOf(a).position, a.target, a.obstacles[i])

\* C10: in each of the ambient, passive and active channels, a target whose
\* straight segment from the observer meets an obstacle rectangle is absent from
\* the result, also when its signal reaches the threshold and it is inside the arc
C10_OccludedIsAbsent ==
  (ret.done /\ Blocked(arg)) =>
    /\ \A i \in 1..Len(ret.ambient) : ret.ambient[i].id # "prey"
    /\ \A i \in 1..Len(ret.passive) : ret.passive[i].id # "prey"
    /\ \A i \in 1..Len(ret.active) : ret.active[i].id # "prey"

\* a wall stands between the observer and a target that is loud enough for every
\* channel and inside the arc, and no channel reports it
C10_Witness ==
  /\ ret.done
  /\ Blocked(arg)
  /\ ambientSignalOk(observerOf(arg), targetOf(arg), detectionParams(initialScan))
  /\ passiveSignalOk(observerOf(arg), targetOf(arg), detectionParams(initialScan))
  /\ activeSignalOk(observerOf(arg), targetOf(arg), detectionParams(initialScan))
  /\ isWithinArc(observerOf(arg), targetOf(arg), passiveArcDeg(detectionParams(initialScan)))
  /\ ret.ambient = <<>>
  /\ ret.passive = <<>>
  /\ ret.active = <<>>

\* the distance from the observer to the target, in 1/100 world unit
SignalDistance(a) == a.target.x - observerOf(a).position.x

\* the target is in the contacts or returns of a channel
Seen(contacts) == \E i \in 1..Len(contacts) : contacts[i].id = "prey"

\* the target stands exactly at a base distance given in meters
AtBase(a, baseMeters) == SignalDistance(a) * M_PER_PX = baseMeters * 100

\* the squared range as the channels take it, in 1/10 world unit
RangeSq(a) == rangeDu(observerOf(a).position, a.target) * rangeDu(observerOf(a).position, a.target)

\* the observer looks at the target through the widest arc
AtMaxArc(a) == a.passiveArcDegrees >= initialScan.passiveArcMaxDegrees /\ a.headingRadians = 0

C12_QuietTargetAtAmbientBase ==
  (ret.done /\ arg.niSmooth = 500 /\ arg.detectabilityBaseMeters = 5600) =>
    /\ AtBase(arg, initialScan.ambientRangeMeters)
         => RangeSq(arg) = ambientReach(sizedTargetOf(arg), paramsOf(arg))
    /\ Seen(ret.ambient)
         <=> SignalDistance(arg) * M_PER_PX <= initialScan.ambientRangeMeters * 100

\* the arguments a with the target moved to the distance d
AtDistance(a, d) == [a EXCEPT !.target = Vec(observerOf(a).position.x + d, a.target.y)]

\* C13: in each channel, with the target's noise and sizeFactor, the arc and the
\* base distance fixed and no obstacle, a target detected at a distance is
\* detected at every smaller distance too, down to distance 0, where the range
\* used is the floor of 1 world unit
C13_DetectionMonotoneInDistance ==
  ret.done =>
    /\ \A d \in SignalDistances :
         d <= SignalDistance(arg) =>
           /\ Seen(ret.ambient) => Seen(sensed(AtDistance(arg, d)).ambient)
           /\ Seen(ret.passive) => Seen(sensed(AtDistance(arg, d)).passive)
           /\ Seen(ret.active) => Seen(sensed(AtDistance(arg, d)).active)
    /\ RangeSq(AtDistance(arg, 0)) = 100

\* a target detected by the three channels at the ambient base distance, and by
\* the three channels on top of the observer
C13_Witness ==
  /\ ret.done
  /\ AtBase(arg, initialScan.ambientRangeMeters)
  /\ Seen(ret.ambient)
  /\ Seen(ret.passive)
  /\ Seen(ret.active)
  /\ Seen(sensed(AtDistance(arg, 0)).ambient)
  /\ Seen(sensed(AtDistance(arg, 0)).passive)
  /\ Seen(sensed(AtDistance(arg, 0)).active)

\* the bearing of the target (0: it is straight east) differs from the heading by
\* more than half the passive arc, the arc clamped to [min, max]; angles in
\* 1/1000 rad against 1/100 degree
OutsideArc(a) ==
  Min(a.headingRadians, TWOPI - a.headingRadians) * 36000
    > Max(initialScan.passiveArcMinDegrees,
          Min(initialScan.passiveArcMaxDegrees, a.passiveArcDegrees)) * PI

\* C14: a target whose bearing differs from the observer's heading by more than
\* half the clamped passive arc is in no passive return, whatever its distance,
\* noise and sizeFactor; the ambient and the active contacts are the same for
\* every heading of the observer
C14_PassiveOnlyInsideArc ==
  ret.done =>
    /\ OutsideArc(arg) => ~Seen(ret.passive)
    /\ \A h \in {0, HALFPI, PI, PI + HALFPI} :
         /\ sensed([arg EXCEPT !.headingRadians = h]).ambient = ret.ambient
         /\ sensed([arg EXCEPT !.headingRadians = h]).active = ret.active

\* a loud target close by and just outside the arc: an ambient and an active
\* contact with a passive signal over the threshold, and no passive return
C14_Witness ==
  /\ ret.done
  /\ OutsideArc(arg)
  /\ arg.headingRadians = 393
  /\ passiveSignalOk(observerOf(arg), sizedTargetOf(arg), paramsOf(arg))
  /\ Seen(ret.ambient)
  /\ Seen(ret.active)
  /\ ret.passive = <<>>

\* the arguments a with the passive arc set to arc
AtArc(a, arc) == [a EXCEPT !.passiveArcDegrees = arc]

\* C16: with maxArc = 180 and minArc = 30, for an otherwise identical target inside
\* the arc the passive signal at arc 45 is strictly greater than at arc 90 (the
\* gain squared is maxArc / arc: 4 and 2), so a target returned at 90 degrees is
\* returned at 45 degrees too
C16_NarrowerArcStrongerSignal ==
  (ret.done /\ arg.passiveArcDegrees = 4500 /\ ~OutsideArc(arg)) =>
    /\ passiveReach(sizedTargetOf(arg), paramsOf(arg))
         > passiveReach(sizedTargetOf(arg), paramsOf(AtArc(arg, 9000)))
    /\ directivity(paramsOf(arg)) * directivity(paramsOf(arg)) = 4 * 1000000
    /\ directivity(paramsOf(AtArc(arg, 9000))) * directivity(paramsOf(AtArc(arg, 9000)))
         \in (2 * 1000000 - 2 * 1415)..(2 * 1000000)
    /\ Seen(sensed(AtArc(arg, 9000)).passive) => Seen(ret.passive)

\* a target inside the 45 degree arc that is returned at 45 degrees and not at 90
C16_Witness ==
  /\ ret.done
  /\ arg.passiveArcDegrees = 4500
  /\ ~OutsideArc(arg)
  /\ Seen(ret.passive)
  /\ sensed(AtArc(arg, 9000)).passive = <<>>

\* C17: the position error of every passive return lies in
\* [passiveMinErrorMeters, passiveMaxErrorMeters], for every SNR and every draw of
\* the +-10% randomization
C17_PosErrorWithinRange ==
  ret.done =>
    \A i \in 1..Len(ret.passive) :
      /\ ret.passive[i].posErrorMeters >= paramsOf(arg).passiveMinErrorMeters
      /\ ret.passive[i].posErrorMeters <= paramsOf(arg).passiveMaxErrorMeters

\* ------------------------------------------------------------ properties of the match

\* a step of the ticker callback
TickStep == ticks' = ticks + 1

ships == <<player, prey>> \o extras

Ended == gameStatus # "playing"

\* the win condition on the ships and the scan state as stored
InterceptNow ==
  /\ scan.lastActivePingAt # 0
  /\ now - scan.lastActivePingAt < 1500
  /\ HypotLess(player.position.x - prey.position.x, player.position.y - prey.position.y, 10000)

\* the lose condition on the clock and the prey as stored
EscapedNow ==
  /\ now > timeStartMs + 120000
  /\ prey.position.x \in (WORLD_W - 18000)..(WORLD_W - 6000)
  /\ prey.position.y \in (WORLD_H \div 2 - 10000)..(WORLD_H \div 2 + 10000)

PlayedFrame == lastTick.kind = "play" /\ lastTick.statusBefore = "playing"

\* C1: after every playing tick the stored velocity of every ship (player, prey,
\* extras) is no larger in magnitude than the ship's own maxSpeed
C1_SpeedWithinMaxSpeed ==
  lastTick.kind = "play" =>
    \A i \in 1..Len(ships) :
      ~HypotGreater(ships[i].velocity.x, ships[i].velocity.y, ships[i].maxSpeed)

NoiseLevels == {0, 9000, 40000}
SuppressionFactors == {-50, 45, 150}

\* C2: after every playing tick, a tick on which the ping fires and adds its spike
\* included, the smoothed noise index of every ship lies in [0, 1.5]; the raw
\* index and one smoothing step stay in that range for any noise components and
\* suppression factor in the zone layout
C2_NoiseWithinRange ==
  /\ \A i \in 1..Len(ships) : ships[i].niSmooth \in 0..15000
  /\ \A b \in NoiseLevels, t \in NoiseLevels, f \in SuppressionFactors, i \in 1..Len(ships) :
       LET ship == [ships[i] EXCEPT !.baseNoise = b, !.thrustNoise = t, !.suppression = f]
           raw == computeNoiseIndexRaw(ship, zones)
       IN /\ raw \in 0..15000
          /\ smoothNoise(ship.niSmooth, raw, 15) \in 0..15000
          /\ smoothNoise(ship.niSmooth, raw, 12) \in 0..15000

\* the ping fired on the latest frame and its spike was cut at 1.5
C2_Witness ==
  /\ lastTick.kind = "play"
  /\ lastTick.fired
  /\ player.niSmooth = 15000

\* C4: after a ping fired at time t, a tick at a time up to t + activeCooldownMs
\* fires no ping even when one is queued: no reveal bubble is added and
\* scan.lastActivePingAt stays t
C4_NoPingInCooldown ==
  [][(/\ TickStep
      /\ scan.lastActivePingAt # 0
      /\ now' <= scan.lastActivePingAt + scan.activeCooldownMs)
     => /\ scan'.lastActivePingAt = scan.lastActivePingAt
        /\ \A i \in 1..Len(detection'.revealBubbles) :
             detection'.revealBubbles[i].createdAt # now']_vars

\* a frame exactly activeCooldownMs after the ping found a ping queued and left it queued
C4_Witness ==
  /\ lastTick.kind = "play"
  /\ lastTick.queued
  /\ pingQueued
  /\ scan.lastActivePingAt # 0
  /\ now = scan.lastActivePingAt + scan.activeCooldownMs

\* C5: when the ping fires on a tick that starts with status playing and the
\* player-to-prey distance at that instant is under 100, the status is win (at the
\* end of that very tick, hence within 1.5 s of the ping)
C5_WinOnPingInRange ==
  (PlayedFrame /\ lastTick.fired /\ scan.lastActivePingAt = now /\ InterceptNow)
    => gameStatus = "win"

\* the ping fired in range on a playing frame, and the match is won
C5_Witness ==
  /\ PlayedFrame
  /\ lastTick.fired
  /\ InterceptNow
  /\ gameStatus = "win"

C7_EndedIsTerminal ==
  [][Ended =>
       \/ gameStatus' = gameStatus
       \/ /\ gameStatus' = "playing"
          /\ TickStep
          /\ resetAt # 0
          /\ now' >= resetAt]_vars

\* an ended frame left the status alone although the match was still being simulated
C7_Witness ==
  /\ lastTick.kind = "play"
  /\ lastTick.statusBefore = "win"
  /\ gameStatus = "win"
  /\ resetAt # 0
  /\ now < resetAt

\* C8: after the status leaves playing the grace timer is armed on the first
\* ended tick, at that tick's time + 2500 ms, and later ended ticks leave it
\* alone; the match is reset on the first tick at or past the deadline, not
\* before and not twice, and as long as ticks arrive (5 more frames are enough
\* with frames of 625 ms or more) the reset happens
C8_GraceThenReset ==
  /\ [][/\ (~Ended /\ TickStep) => resetAt' = 0
        /\ ~TickStep => resetAt' = resetAt
        /\ (Ended /\ TickStep /\ resetAt = 0)
             => (resetAt' = now' + 2500 /\ gameStatus' = gameStatus)
        /\ (Ended /\ TickStep /\ resetAt # 0 /\ now' < resetAt)
             => (resetAt' = resetAt /\ gameStatus' = gameStatus)
        /\ (Ended /\ TickStep /\ resetAt # 0 /\ now' >= resetAt)
             => /\ resetAt' = 0
                /\ gameStatus' = "playing"
                /\ timeStartMs' = now'
                /\ player' = createInitialPlayer
                /\ prey' = createInitialPrey
                /\ detection' = initialDetection]_vars
  /\ (Ended /\ ticks + 5 <= LiveMaxTicks) ~> (lastTick.reset /\ ~Ended)

\* the match was reset by an ended frame at or past the deadline
C8_Witness ==
  /\ lastTick.kind = "play"
  /\ lastTick.reset
  /\ lastTick.statusBefore = "win"
  /\ gameStatus = "playing"
  /\ resetAt = 0
  /\ timeStartMs = now

\* C15: after any sequence of ticks, with the widen and narrow keys held alone
\* or together and with ticks on which the ping fires, scan.passiveArcDegrees
\* lies in [passiveArcMinDegrees, passiveArcMaxDegrees]
C15_ArcWithinRange ==
  /\ scan.passiveArcDegrees >= scan.passiveArcMinDegrees
  /\ scan.passiveArcDegrees <= scan.passiveArcMaxDegrees

\* the arc sits at its minimum after a frame with the narrow key held on which the
\* ping fired
C15_Witness ==
  /\ lastTick.kind = "play"
  /\ lastTick.fired
  /\ "q" \in lastTick.keys
  /\ scan.passiveArcDegrees = scan.passiveArcMinDegrees

\* the TTL'd entry b is expired at the time t
Expired(b, t) == t - b.createdAt >= b.ttlMs

\* the reveal bubbles held in the store
Bubbles == {detection.revealBubbles[i] : i \in 1..Len(detection.revealBubbles)}

\* C18: at the end of every playing tick every reveal bubble in DetectionState is
\* younger than its TTL; a bubble is dropped by the first tick whose time finds it
\* expired and kept by a tick that finds it alive (unless the match is reset), and
\* between ticks the bubbles do not change: no timer removes them
C18_BubblesYoungerThanTtl ==
  /\ [](\A b \in Bubbles : ~Expired(b, now))
  /\ [][/\ TickStep => \A b \in Bubbles :
                         /\ Expired(b, now') => b \notin Bubbles'
                         /\ (~Expired(b, now') /\ ~lastTick'.reset) => b \in Bubbles'
        /\ ~TickStep => Bubbles' = Bubbles]_vars

\* the bubble of the latest ping is gone after a frame 1500 ms or more past the ping
C18_Witness ==
  /\ lastTick.kind = "play"
  /\ ~lastTick.reset
  /\ ~lastTick.fired
  /\ scan.lastActivePingAt # 0
  /\ now - scan.lastActivePingAt >= 1500
  /\ now - lastTick.dtMs - scan.lastActivePingAt < 1500
  /\ detection.revealBubbles = <<>>

\* C19: at the end of every playing tick DetectionState holds no breadcrumb and
\* no decoy marker whose age (tick time - createdAt) is at or past its TTL
C19_NoExpiredCrumbsOrDecoys ==
  lastTick.kind = "play" =>
    /\ \A i \in 1..Len(detection.breadcrumbs) : ~Expired(detection.breadcrumbs[i], now)
    /\ \A i \in 1..Len(detection.decoys) : ~Expired(detection.decoys[i], now)

\* C20: the raw noise index a playing tick stores for a ship is the one of the
\* position and suppression the ship has at the end of that tick, after the
\* control or AI movement and the collision correction
C20_NoiseFromPostMoveState ==
  (lastTick.kind = "play" /\ ~lastTick.reset) =>
    \A i \in 1..Len(ships) : ships[i].niRaw = computeNoiseIndexRaw(ships[i], zones)

\* the set() calls of the latest frame that replaced the store key k
WritesOf(k) == {i \in 1..Len(lastTick.sets) : k \in lastTick.sets[i]}

\* C21: a playing tick replaces the state of the store exactly once, at its end,
\* so that no state of the store holds only part of the tick's updates: not the
\* new ship positions with the detection of the tick before, and not a 'lose'
\* that the same tick turns into 'win'
C21_OneStoreWritePerTick ==
  lastTick.kind = "play" =>
    /\ Len(lastTick.sets) = 1
    /\ WritesOf("player") = WritesOf("detection")
    /\ Cardinality(WritesOf("gameStatus")) <= 1

\* a playing frame of the ticker that did not end in resetGame()
PlayStep == TickStep /\ lastTick'.kind = "play" /\ ~lastTick'.reset

\* C22: on a tick whose dt is 0 or less the integration is skipped: every ship has
\* the same position and the same velocity after the tick as before it
C22_NoMotionOnZeroDt ==
  [][(PlayStep /\ lastTick'.dtMs <= 0) =>
       /\ player'.position = player.position
       /\ player'.velocity = player.velocity
       /\ prey'.position = prey.position
       /\ prey'.velocity = prey.velocity]_vars

\* C23: on every tick the prey's intent follows from two facts only: it is 'patrol'
\* exactly when the prey was not hit by a ping in the last 4000 ms, 'hide' exactly
\* when it was and the environment suppression where it stands is below 0.3,
\* 'evade' exactly when it was and the suppression is 0.3 or more; so the prey is
\* back in 'patrol' on the first tick 4000 ms or more after the last hit
C23_IntentFromPingAndSuppression ==
  [][(TickStep /\ lastTick'.kind = "play") =>
       LET hit == prey.lastPingDetectedAt # 0 /\ now' - prey.lastPingDetectedAt < 4000
           low == Min(90, Max(0, StackedAt(prey.position, zones))) < 30
       IN /\ lastTick'.intent = "patrol" <=> ~hit
          /\ lastTick'.intent = "hide" <=> (hit /\ low)
          /\ lastTick'.intent = "evade" <=> (hit /\ ~low)]_vars

\* a prey that was hit by a ping is back in patrol on a frame 4000 ms or more after
\* the hit, the frame before having come less than 4000 ms after it
C23_Witness ==
  /\ lastTick.kind = "play"
  /\ ~lastTick.reset
  /\ ~lastTick.fired
  /\ lastTick.intent = "patrol"
  /\ prey.lastPingDetectedAt # 0
  /\ now - prey.lastPingDetectedAt >= 4000
  /\ now - lastTick.dtMs - prey.lastPingDetectedAt < 4000

\* the centre of a zone
Centroid(z) == Vec(z.x + z.width \div 2, z.y + z.height \div 2)

\* the zones of the list whose centre lies nearest to the point
NearestZones(point, zs) ==
  LET far(i) == (Centroid(zs[i]).x - point.x) * (Centroid(zs[i]).x - point.x)
                + (Centroid(zs[i]).y - point.y) * (Centroid(zs[i]).y - point.y)
  IN {i \in 1..Len(zs) : \A j \in 1..Len(zs) : far(i) <= far(j)}

\* updatePreyAI chose the hide intent
Hiding == ret.done /\ "intent" \in DOMAIN ret /\ ret.intent = "hide"

\* C24: in the hide intent the prey's velocity points at the centroid of the zone
\* nearest to the prey's position, for every list of zones in any order
C24_HideSteersToNearestZone ==
  Hiding =>
    \E i \in NearestZones(arg.point, arg.zones) :
      ret.velocity = scaleTo(UnitVec(Centroid(arg.zones[i]).x - arg.point.x,
                                     Centroid(arg.zones[i]).y - arg.point.y), 13200)

\* C25: the prey AI emits a decoy event only on a tick where the prey was hit by a
\* ping within the last 4000 ms, and any two consecutive decoy events of a run,
\* also across an auto-reset, are more than 3000 ms apart
C25_DecoysThrottled ==
  [][(TickStep /\ lastTick'.kind = "play" /\ lastTick'.spawned) =>
       /\ prey.lastPingDetectedAt # 0
       /\ now' - prey.lastPingDetectedAt < 4000
       /\ lastTick.decoyAt # 0 => now' - lastTick.decoyAt > 3000]_vars

\* the prey is one of the active contacts held in the store
PreyInActiveContacts ==
  \E i \in 1..Len(detection.activeContacts) : detection.activeContacts[i].id = "prey"

\* C26: when the active ping fires, the prey's lastPingDetectedAt becomes the tick
\* time only if the prey is among the active contacts the ping returns (within
\* threshold range and not occluded), and stays as it was otherwise; no tick
\* without a ping, whatever its ambient and passive detections, changes it
C26_PingMarksOnlyItsTargets ==
  [][PlayStep =>
       prey'.lastPingDetectedAt = IF lastTick'.fired /\ PreyInActiveContacts'
                                  THEN now'
                                  ELSE prey.lastPingDetectedAt]_vars

\* the indices of the rectangles of the call that contain its next position
RectsHit == {i \in 1..Len(arg.obstacles) : inside(arg.next, arg.obstacles[i])}

\* the coordinates 0.01 outside the edges of [lo, lo + size] nearest to v
OutsideNearerEdge(v, lo, size) ==
  {lo - EPS : k \in {0} \cap {IF v - lo <= lo + size - v THEN 0 ELSE 1}}
    \cup {lo + size + EPS : k \in {0} \cap {IF lo + size - v <= v - lo THEN 0 ELSE 1}}

\* C27: resolveCollisionsWithVelocity on a next position inside exactly one
\* rectangle changes one coordinate, the one on the axis of smaller penetration
\* (y on a tie), to 0.01 outside the nearer edge, zeroes the velocity component
\* on that axis and leaves the other coordinate and component alone; a next
\* position inside no rectangle comes back unchanged with its velocity
C27_SlidingContact ==
  (ret.done /\ ret.fn = "resolveCollisionsWithVelocity") =>
    /\ RectsHit = {} => ret.pos = arg.next /\ ret.vel = arg.velocity
    /\ Cardinality(RectsHit) = 1 =>
         LET r == arg.obstacles[CHOOSE i \in RectsHit : TRUE]
             penX == Min(arg.next.x - r.x, r.x + r.width - arg.next.x)
             penY == Min(arg.next.y - r.y, r.y + r.height - arg.next.y)
         IN IF penX < penY
            THEN /\ ret.pos.x \in OutsideNearerEdge(arg.next.x, r.x, r.width)
                 /\ ret.pos.y = arg.next.y
                 /\ ret.vel = Vec(0, arg.velocity.y)
            ELSE /\ ret.pos.y \in OutsideNearerEdge(arg.next.y, r.y, r.height)
                 /\ ret.pos.x = arg.next.x
                 /\ ret.vel = Vec(arg.velocity.x, 0)

\* the player as controls.tick leaves it in the store during the step
PlayerAfterControls == controlsTick(player, scan, lastTick'.keys, FALSE, lastTick'.dtMs).player

\* C28: the tick applies to the player the collision rule it applies to the prey:
\* a player that controls.tick left inside an obstacle is pushed out and loses
\* the velocity component on the axis of the push
C28_PlayerCollidesLikePrey ==
  [][PlayStep =>
       LET c == clampToWorld(resolveCollisionsWithVelocity(PlayerAfterControls.position,
                                                           PlayerAfterControls.velocity,
                                                           obstacles))
       IN player'.position = c.nextPos /\ player'.velocity = c.nextVel]_vars

InWorld(p) == p.x >= 0 /\ p.x <= WORLD_W /\ p.y >= 0 /\ p.y <= WORLD_H

\* the world clamp on one axis: from the coordinate v0 and velocity component w0
\* to v1 and w1, between 0 and max
ClampedAxis(v0, w0, v1, w1, max) ==
  IF v0 < 0 THEN v1 = 0 /\ w1 = 0
  ELSE IF v0 > max THEN v1 = max /\ w1 = 0
  ELSE v1 = v0 /\ w1 = w0

\* the ship `after` is the ship at position pos with velocity vel, clamped to the world
ClampedShip(pos, vel, after) ==
  /\ ClampedAxis(pos.x, vel.x, after.position.x, after.velocity.x, WORLD_W)
  /\ ClampedAxis(pos.y, vel.y, after.position.y, after.velocity.y, WORLD_H)

\* the prey after updatePreyAI and the orchestrator's integration and collision,
\* before the world clamp, for one of the two burst draws
PreyBeforeClamp(burstSign) ==
  LET q == updatePreyAI(noiseStep(prey, zones, 12), zones, obstacles, lastTick'.dtMs, now',
                        burstSign, unstickUntil).prey
  IN resolveCollisionsWithVelocity(integrate(q.position, q.velocity, lastTick'.dtMs),
                                   q.velocity, obstacles)

\* C29: a playing tick leaves the player and the prey inside the world rectangle,
\* and its world clamp moves a coordinate to the bound and zeroes the velocity
\* component of that axis only where the position was outside, leaving the other
\* axis as it was
C29_ClampedToWorldPerAxis ==
  [][(TickStep /\ lastTick'.kind = "play") =>
       /\ InWorld(player'.position) /\ InWorld(prey'.position)
       /\ ~lastTick'.reset =>
            /\ ClampedShip(resolveCollisions(PlayerAfterControls.position, obstacles),
                           PlayerAfterControls.velocity, player')
            /\ \E burstSign \in {1, -1} :
                 ClampedShip(PreyBeforeClamp(burstSign).nextPos,
                             PreyBeforeClamp(burstSign).nextVel, prey')]_vars

\* a tick clamped the prey on the east edge of the world and left its y axis moving
C29_Witness ==
  /\ lastTick.kind = "play" /\ ~lastTick.reset
  /\ prey.position.x = WORLD_W /\ prey.velocity.x = 0
  /\ prey.position.y > 0 /\ prey.position.y < WORLD_H /\ prey.velocity.y # 0

\* the point p touches no obstacle and no edge of the world
InOpenWater(p) ==
  /\ p.x > 0 /\ p.x < WORLD_W /\ p.y > 0 /\ p.y < WORLD_H
  /\ \A i \in 1..Len(obstacles) : ~inside(p, obstacles[i])

\* the prey as updatePreyAI returns it during the step, for one of the two burst draws
PreyAfterAI(burstSign) ==
  updatePreyAI(noiseStep(prey, zones, 12), zones, obstacles, lastTick'.dtMs, now',
               burstSign, unstickUntil).prey

\* C30: a tick integrates each ship's position once: when the ship touches no
\* obstacle and no world edge, it moves by one step velocity * dt (for the prey,
\* the step of the AI update or the step of the orchestrator, not both)
C30_IntegratedOnce ==
  [][PlayStep =>
       /\ InOpenWater(PlayerAfterControls.position) =>
            player'.position = integrate(player.position, player'.velocity, lastTick'.dtMs)
       /\ \A burstSign \in {1, -1} :
            LET q == PreyAfterAI(burstSign)
                once == integrate(prey.position, q.velocity, lastTick'.dtMs)
            IN (/\ prey'.velocity = q.velocity
                /\ prey'.position = integrate(q.position, q.velocity, lastTick'.dtMs)
                /\ InOpenWater(prey'.position) /\ InOpenWater(q.position) /\ InOpenWater(once))
               => prey'.position \in {q.position, once}]_vars

\* C31: after every tick the active contacts are non-empty only within 1200 ms of
\* the ping that produced them (tick time <= activeContactsExpiresAtMs); the first
\* tick after that window leaves the list empty; the list holds the positions the
\* targets had on the ping tick, and ticks without a ping keep it as it is
C31_ActiveContactsWindow ==
  [][(TickStep /\ lastTick'.kind = "play") =>
       /\ detection'.activeContacts # <<>> =>
            /\ scan'.lastActivePingAt # 0
            /\ detection'.activeContactsExpiresAtMs = scan'.lastActivePingAt + 1200
            /\ now' <= detection'.activeContactsExpiresAtMs
       /\ (lastTick'.fired /\ ~lastTick'.reset) =>
            \A i \in 1..Len(detection'.activeContacts) :
              /\ detection'.activeContacts[i].id = prey'.id
              /\ detection'.activeContacts[i].position = prey'.position
       /\ (~lastTick'.fired /\ detection'.activeContacts # <<>>) =>
            detection'.activeContacts = detection.activeContacts]_vars

\* a tick after the ping tick, inside the window: the contact is still listed, at
\* the position the prey had when the ping fired, and the prey has moved on
C31_Witness ==
  /\ lastTick.kind = "play" /\ ~lastTick.fired
  /\ now > scan.lastActivePingAt
  /\ Len(detection.activeContacts) = 1
  /\ detection.activeContacts[1].position # prey.position

\* C32: every passive return in the stored detection state carries an approximate
\* position, a point with x and y, as the PassiveReturn type declares and the
\* drawing code reads
C32_PassiveReturnsCarryPosition ==
  \A i \in 1..Len(detection.passiveReturns) :
    /\ "approximatePosition" \in DOMAIN detection.passiveReturns[i]
    /\ DOMAIN detection.passiveReturns[i].approximatePosition = {"x", "y"}

\* the prey's velocity when updatePreyAI measures its speed during the step: the
\* intent's velocity with the wall repulsion added, for one of the two burst draws
PreySteeredVelocity(burstSign) ==
  LET q == noiseStep(prey, zones, 12)
  IN preySteer(preyIntentVelocity(q, zones, now', burstSign, preyIntent(q, zones, now')),
               repulsionFromObstacles(q.position.x, q.position.y, obstacles),
               repulsionFromObstacles(q.position.x + Cos(q.headingRadians) * 6,
                                      q.position.y + Sin(q.headingRadians) * 6, obstacles),
               lastTick'.dtMs)

\* a playing tick on which the unstick override fired
UnstickStep == TickStep /\ lastTick'.kind = "play" /\ lastTick'.unstuck

\* the vector v is at a right angle to the heading h (to 1 % of speed * 0.8)
Perpendicular(v, h) ==
  /\ Abs(v.x * Cos(h) + v.y * Sin(h)) * 100 <= 17600 * 1000
  /\ Hypot(v.x, v.y) >= 17500

\* C33: the unstick override fires on a tick only when the prey's speed is below 5
\* and the 400 ms window of the previous unstick has ended, so two bursts are at
\* least 400 ms apart; the burst it sets is perpendicular to the heading the prey
\* had, and opens a new window of 400 ms
C33_UnstickThrottled ==
  [][UnstickStep =>
       /\ \E burstSign \in {1, -1} :
            /\ HypotLess(PreySteeredVelocity(burstSign).x, PreySteeredVelocity(burstSign).y, 500)
            /\ lastTick'.dtMs > 0 /\ lastTick'.dtMs < 1000 =>
                 Perpendicular(Vec(((PreyAfterAI(burstSign).position.x - prey.position.x) * 1000)
                                     \div lastTick'.dtMs,
                                   ((PreyAfterAI(burstSign).position.y - prey.position.y) * 1000)
                                     \div lastTick'.dtMs),
                               prey.headingRadians)
       /\ now' >= unstickUntil
       /\ unstickUntil # 0 => now' - (unstickUntil - 400) >= 400
       /\ unstickUntil' = now' + 400]_vars

\* the override has fired on this tick and opened its window of 400 ms
C33_Witness ==
  /\ lastTick.kind = "play" /\ lastTick.unstuck /\ lastTick.dtMs > 0
  /\ unstickUntil = now + 400

\* C34: a queued ping request is kept until it fires: a playing tick that finds
\* the flag set fires the ping when the cooldown is over (no earlier ping, or one
\* more than activeCooldownMs ago) and clears the flag, and otherwise leaves the
\* flag set; menu ticks leave it alone; nothing but a ping that fires clears it
C34_QueuedPingKept ==
  [][/\ (pingQueued /\ ~pingQueued') => (TickStep /\ lastTick'.kind = "play" /\ lastTick'.fired)
     /\ (TickStep /\ lastTick'.kind = "menu") => pingQueued' = pingQueued
     /\ (TickStep /\ lastTick'.kind = "play" /\ pingQueued) =>
          IF scan.lastActivePingAt = 0
             \/ now' - scan.lastActivePingAt > scan.activeCooldownMs
          THEN lastTick'.fired /\ scan'.lastActivePingAt = now' /\ ~pingQueued'
          ELSE /\ ~lastTick'.fired /\ pingQueued'
               /\ scan'.lastActivePingAt = scan.lastActivePingAt]_vars

\* a playing tick inside the cooldown found a request queued and kept it
C34_Witness ==
  /\ lastTick.kind = "play" /\ lastTick.queued /\ ~lastTick.fired
  /\ pingQueued
  /\ scan.lastActivePingAt # 0
  /\ now < scan.lastActivePingAt + scan.activeCooldownMs

\* C35: a tick on which the ping fires leaves the scan state that the tick's
\* controls produced (arc width changed by Q/E, dark run set from Shift), with
\* only lastActivePingAt replaced by the tick time
C35_PingKeepsControlsScan ==
  [][(PlayStep /\ lastTick'.fired) =>
       \E darkRunHeld \in BOOLEAN :
         scan' = [controlsTick(player, scan, lastTick'.keys, darkRunHeld, lastTick'.dtMs).scan
                    EXCEPT !.lastActivePingAt = now']]_vars

\* C36: the status leaves playing for lose only on a tick that ends past the time
\* limit with the prey inside the escape zone, and for win only on a tick that
\* ends with a ping less than 1500 ms old and the player within 100 of the prey; a
\* tick past the time limit with neither leaves the status playing
C36_EndsOnlyOnItsCondition ==
  [][/\ (gameStatus = "playing" /\ gameStatus' = "lose") => (TickStep /\ EscapedNow')
     /\ (gameStatus = "playing" /\ gameStatus' = "win") => (TickStep /\ InterceptNow')
     /\ (gameStatus = "playing" /\ TickStep /\ now' > timeStartMs + timeLimitMs
         /\ ~preyInEscapeZone(prey') /\ ~InterceptNow') => gameStatus' = "playing"]_vars

\* a playing tick past the time limit, the prey outside the escape zone and no
\* intercept: the match goes on
C36_Witness ==
  /\ PlayedFrame /\ ~lastTick.reset
  /\ now > timeStartMs + timeLimitMs
  /\ ~preyInEscapeZone(prey)
  /\ ~InterceptNow
  /\ gameStatus = "playing"

\* C37: a playing tick on which both the lose condition (time limit passed, prey in
\* the escape zone) and the win condition (recent ping, distance under 100) hold
\* ends with status win
C37_WinOverridesLose ==
  (PlayedFrame /\ EscapedNow /\ InterceptNow) => gameStatus = "win"

\* both conditions held on a playing tick, and the match is won
C37_Witness ==
  /\ PlayedFrame
  /\ EscapedNow
  /\ InterceptNow
  /\ gameStatus = "win"

\* C38: a reveal bubble enters the detection state only on a tick whose ping
\* fires: one bubble at the player's position, with a TTL of 1500 ms; the
\* cooldown being longer than the TTL, the state never holds more than one bubble
C38_OneBubblePerPing ==
  /\ [](Len(detection.revealBubbles) <= 1)
  /\ [][/\ Bubbles' \ Bubbles # {} => (TickStep /\ lastTick'.kind = "play" /\ lastTick'.fired)
        /\ (TickStep /\ lastTick'.kind = "play" /\ lastTick'.fired /\ ~lastTick'.reset) =>
             /\ Len(detection'.revealBubbles) = 1
             /\ detection'.revealBubbles[1].x = player'.position.x
             /\ detection'.revealBubbles[1].y = player'.position.y
             /\ detection'.revealBubbles[1].ttlMs = 1500
             /\ detection'.revealBubbles[1] \notin Bubbles]_vars

\* the bubble of a ping that fired after the player had moved
C38_Witness ==
  /\ lastTick.kind = "play" /\ lastTick.fired /\ ~lastTick.reset
  /\ Len(detection.revealBubbles) = 1
  /\ detection.revealBubbles[1].createdAt = now
  /\ detection.revealBubbles[1].x = player.position.x
  /\ player.position # createInitialPlayer.position

\* C39: the tick that resets the match stores status playing, the tick time as
\* start timestamp, the empty detection state and the initial player, prey and
\* extras, and nothing else of the match: the scan state is the one the tick's
\* controls and ping left, so lastActivePingAt and the running cooldown carry over
C39_ResetKeepsScan ==
  [][(TickStep /\ lastTick'.kind = "play" /\ lastTick'.reset) =>
       /\ gameStatus' = "playing"
       /\ timeStartMs' = now'
       /\ detection' = initialDetection
       /\ player' = createInitialPlayer
       /\ prey' = createInitialPrey
       /\ extras' = <<>>
       /\ gamePhase' = gamePhase /\ zones' = zones /\ obstacles' = obstacles
       /\ pingQueued' = (pingQueued /\ ~lastTick'.fired)
       /\ \E darkRunHeld \in BOOLEAN :
            scan' = IF lastTick'.fired
                    THEN [scan EXCEPT !.lastActivePingAt = now']
                    ELSE controlsTick(player, scan, lastTick'.keys, darkRunHeld,
                                      lastTick'.dtMs).scan]_vars

\* a match just reset while the cooldown of the last ping is still running
C39_Witness ==
  /\ lastTick.kind = "play" /\ lastTick.reset /\ ~lastTick.fired
  /\ gameStatus = "playing" /\ timeStartMs = now
  /\ scan.lastActivePingAt # 0
  /\ now - scan.lastActivePingAt <= scan.activeCooldownMs

\* C40: a tick in the menu phase runs no simulation: it leaves the ships, the scan
\* state, the detection state, the status and the start timestamp as they were;
\* the phase leaves the menu only by the ship selection, which sets the start
\* timestamp to the time of the selection
C40_MenuTicksAreIdle ==
  [][/\ (TickStep /\ gamePhase = "menu") =>
          /\ lastTick'.kind = "menu"
          /\ UNCHANGED <<player, prey, extras, scan, detection, gameStatus, timeStartMs,
                         gamePhase>>
     /\ (gamePhase = "menu" /\ gamePhase' # "menu") =>
          /\ gamePhase' = "playing"
          /\ ~TickStep
          /\ lastTick'.kind = "select"
          /\ timeStartMs' = now]_vars

\* the ship was selected after menu ticks: the match clock starts later than the boot
C40_Witness ==
  /\ gamePhase = "playing"
  /\ lastTick.kind = "select"
  /\ ticks > 0
  /\ timeStartMs = now
  /\ timeStartMs \notin BootTimes

====
